---- MODULE Spec2Model ----
(***************************************************************************)
(* G-code emission engine of PathScripts/PostUtils.py: export_common, the  *)
(* recursive parse of the object tree, the per-command line emitter,       *)
(* linenumber and drill_translate; and the post processor around it,       *)
(* post/refactored_grbl_post.py: its globals, processArguments and export. *)
(*                                                                         *)
(* Representation.                                                         *)
(*  - A text (command name, comment, raw line) is a sequence of chunks;    *)
(*    the characters "(" and ")" are always chunks of their own, so that   *)
(*    command[0] == "(", fcoms' replace and the MC_RUN_COMMAND pattern are *)
(*    computed on the text and not looked up.                              *)
(*  - A numeric parameter value is an integer number of thousandths (of a  *)
(*    millimetre, of a mm/s, of a second, of a plain number).              *)
(*  - A formatted number is the pair m, d: the decimal m / 10^d printed    *)
(*    with exactly d decimals.                                             *)
(*  - An output line is a record: n its line number (-1: none), kind the   *)
(*    statement that produced it, toks its tokens in output order, src the *)
(*    position in the command stream of the command that produced it       *)
(*    (0: none), node the call of parse that produced it (0: none; negated *)
(*    when the object of the call, or a group around it, is not active).   *)
(*  - A Python exception that leaves export_common is pc = "raised".       *)
(*  - An argument string is the sequence of its options, each a name and   *)
(*    a value (a sequence: empty for a flag).                              *)
(***************************************************************************)
EXTENDS Integers, Sequences, FiniteSets, TLC

VARIABLES
    values,       \* the values dictionary (configuration and emitter state)
    dom,          \* the sets the inputs of this export are drawn from
    objectslist,  \* the top-level objects handed to export_common
    objidx,       \* index of the object the loop of export_common is at
    pc,           \* position in export_common
    gcode,        \* the gcode string of export_common, as lines
    stack,        \* the active calls of parse, outermost first
    coolantMode,  \* coolantMode of the operation being processed
    final,        \* what export_common returned
    stream,       \* history: the commands of the paths parsed so far
    calls,        \* history: the number of calls of parse so far
    kids,         \* history: the number of group members visited so far
    globals,      \* PREAMBLE, POSTAMBLE and UNITS of the module of the post
    argstring,    \* the argument string of this export
    exports       \* history: the number of calls of export so far

\* the post processor around export_common
post == <<globals, argstring, exports>>

vars == <<values, dom, objectslist, objidx, pc, gcode, stack, coolantMode,
          final, stream, calls, kids, post>>

----------------------------------------------------------------------------
(* Bounds of the model *)

\* the objects of one export: those of objectslist and the members of groups
MaxNodes == 3
\* the commands of one export, over all its paths
MaxCmds == 2

----------------------------------------------------------------------------
(* Texts *)

NoNum == 0 - 1

RECURSIVE replace(_, _, _)
replace(t, old, new) ==
    IF t = << >> THEN << >>
    ELSE (IF Head(t) = old THEN new ELSE <<Head(t)>>) \o replace(Tail(t), old, new)

fcoms(string, commentsym) ==
    IF Len(commentsym) = 1
    THEN replace(replace(string, "(", commentsym), ")", << >>)
    ELSE string

create_comment(comment_string, comment_symbol) ==
    IF comment_symbol = <<"(">>
    THEN <<"(">> \o comment_string \o <<")">>
    ELSE comment_symbol \o comment_string

\* re.match(r"^\(MC_RUN_COMMAND: ([^)]+)\)$", command)
mc_match(command) ==
    /\ Len(command) >= 4
    /\ command[1] = "("
    /\ command[2] = "MC_RUN_COMMAND: "
    /\ command[Len(command)] = ")"
    /\ \A i \in 3..(Len(command) - 1) : command[i] # ")"

mc_group(command) == SubSeq(command, 3, Len(command) - 1)

----------------------------------------------------------------------------
(* Numbers *)

RECURSIVE Pow10(_)
Pow10(d) == IF d = 0 THEN 1 ELSE 10 * Pow10(d - 1)

\* "%.*f": the nearest decimal with d digits, ties to even
RoundHalfEven(num, den) ==
    LET q == num \div den
        r == num - q * den
    IN  IF 2 * r < den THEN q
        ELSE IF 2 * r > den THEN q + 1
        ELSE IF q % 2 = 0 THEN q ELSE q + 1

\* Units.Quantity(v, Length).getValueAs(unit_format), formatted with d decimals:
\* v / 1000 mm is v / 25400 in
fmt_length_metric(v, unit_format, d) == RoundHalfEven(v * Pow10(d), 1000)

fmt_length(v, unit_format, d) ==
    IF unit_format = "mm"
    THEN RoundHalfEven(v * Pow10(d), 1000)
    ELSE RoundHalfEven(v * Pow10(d), 25400)

\* Units.Quantity(v, Velocity).getValueAs(unit_speed_format): mm/s to per
\* minute; 60 v / 1000 mm/min is 3 v / 1270 in/min
fmt_speed(v, unit_speed_format, d) ==
    IF unit_speed_format = "mm/min"
    THEN RoundHalfEven(v * 60 * Pow10(d), 1000)
    ELSE RoundHalfEven(v * 3 * Pow10(d), 1270)

fmt(num, dec, units) ==
    IF units = "G21"
    THEN RoundHalfEven(num * Pow10(dec), 1000)
    ELSE RoundHalfEven(num * Pow10(dec), 25400)

\* int(x): truncation toward zero
int_up(v) == IF v >= 0 THEN (v + 999) \div 1000 ELSE 0 - ((999 - v) \div 1000)

int(v) == IF v >= 0 THEN v \div 1000 ELSE 0 - ((0 - v) \div 1000)

----------------------------------------------------------------------------
(* Commands: Name and Parameters (in declaration order) *)

Cmd(name, ps) == [Name |-> name, Parameters |-> ps]

Par(k, v) == [k |-> k, v |-> v]

Keys(c) == {c.Parameters[i].k : i \in 1..Len(c.Parameters)}

Has(c, k) == k \in Keys(c)

Val(c, k) ==
    LET i == CHOOSE j \in 1..Len(c.Parameters) : c.Parameters[j].k = k
    IN  c.Parameters[i].v

----------------------------------------------------------------------------
(* Tokens and output lines *)

\* a command name, a comment or a raw line
Word(t) == [k |-> "", t |-> t, m |-> 0, d |-> 0]

\* a parameter: its key and its formatted value
Num(k, m, d) == [k |-> k, t |-> << >>, m |-> m, d |-> d]

Line(n, kind, toks, src, node) ==
    [n |-> n, kind |-> kind, toks |-> toks, src |-> src, node |-> node]

----------------------------------------------------------------------------
(* The values dictionary *)

init_shared_values ==
    [ AXIS_PRECISION |-> 3,
      COMMENT_SYMBOL |-> <<"(">>,
      CURRENT_X |-> 0,
      CURRENT_Y |-> 0,
      CURRENT_Z |-> 0,
      DRILL_CYCLES_TO_TRANSLATE |-> {<<"G81">>, <<"G82">>, <<"G83">>},
      DRILL_RETRACT_MODE |-> <<"G98">>,
      ENABLE_COOLANT |-> FALSE,
      ENABLE_MACHINE_SPECIFIC_COMMANDS |-> FALSE,
      FEED_PRECISION |-> 3,
      LINE_INCREMENT |-> 10,
      line_number |-> 100,
      MODAL |-> FALSE,
      MOTION_COMMANDS |-> {<<"G0">>, <<"G00">>, <<"G1">>, <<"G01">>,
                           <<"G2">>, <<"G02">>, <<"G3">>, <<"G03">>},
      MOTION_MODE |-> <<"G90">>,
      OUTPUT_BCNC |-> FALSE,
      OUTPUT_COMMENTS |-> TRUE,
      OUTPUT_HEADER |-> TRUE,
      OUTPUT_LINE_NUMBERS |-> FALSE,
      OUTPUT_DOUBLES |-> TRUE,
      OUTPUT_TOOL_CHANGE |-> TRUE,
      PARAMETER_ORDER |-> <<"X", "Y", "Z", "A", "B", "C", "U", "V", "W", "I",
                            "J", "K", "F", "S", "T", "Q", "R", "L", "P">>,
      POSTAMBLE |-> << >>,
      POST_OPERATION |-> << >>,
      PREAMBLE |-> << >>,
      PRE_OPERATION |-> << >>,
      RAPID_MOVES |-> {<<"G0">>, <<"G00">>},
      REMOVE_MESSAGES |-> TRUE,
      RETURN_TO |-> << >>,
      SAFETYBLOCK |-> << >>,
      SHOW_MACHINE_UNITS |-> TRUE,
      SHOW_OPERATION_LABELS |-> TRUE,
      SPINDLE_DECIMALS |-> 0,
      SPINDLE_WAIT |-> 0,
      STOP_SPINDLE_FOR_TOOL_CHANGE |-> TRUE,
      SUPPRESS_COMMANDS |-> { },
      TOOL_CHANGE |-> << >>,
      TOOLRETURN |-> << >>,
      TRANSLATE_DRILL_CYCLES |-> FALSE,
      UNITS |-> "G21",
      UNIT_FORMAT |-> "mm",
      UNIT_SPEED_FORMAT |-> "mm/min",
      USE_TLO |-> TRUE ]

\* the defaults with the options of record o set by the caller
Configured(o) ==
    [f \in DOMAIN init_shared_values |->
        IF f \in DOMAIN o THEN o[f] ELSE init_shared_values[f]]

\* "G90" in values["PREAMBLE"]: a text block is a sequence of lines, a line a
\* sequence of words
Contains(block, word) ==
    \E i \in 1..Len(block) : \E j \in 1..Len(block[i]) : block[i][j] = word

----------------------------------------------------------------------------
(* linenumber: s is the number put in front of the line (NoNum: none), v the
   values after the call *)

linenumber_stuck(v) ==
    IF v.OUTPUT_LINE_NUMBERS
    THEN [s |-> v.line_number, v |-> v]
    ELSE [s |-> NoNum, v |-> v]

linenumber(v) ==
    IF v.OUTPUT_LINE_NUMBERS
    THEN [s |-> v.line_number,
          v |-> [v EXCEPT !.line_number = @ + v.LINE_INCREMENT]]
    ELSE [s |-> NoNum, v |-> v]

\* out += linenumber(values) + <text> + "\n", on the pair st = [v, out]
Put_front(st, kind, toks, src, node) ==
    LET ln == linenumber(st.v)
    IN  [st EXCEPT !.v = ln.v,
                   !.out = <<Line(ln.s, kind, toks, src, node)>> \o st.out]

Put(st, kind, toks, src, node) ==
    LET ln == linenumber(st.v)
    IN  [st EXCEPT !.v = ln.v,
                   !.out = Append(st.out, Line(ln.s, kind, toks, src, node))]

\* for line in block.splitlines(False): out += linenumber(values) + line + "\n"
RECURSIVE PutBlock(_, _, _, _, _)
PutBlock(st, kind, block, src, node) ==
    IF block = << >> THEN st
    ELSE PutBlock(Put(st, kind, <<Word(Head(block))>>, src, node),
                  kind, Tail(block), src, node)

\* if values["OUTPUT_COMMENTS"]: out += linenumber(values) + create_comment(..)
PutComment(st, kind, text, src, node) ==
    Put(st, kind, <<Word(create_comment(text, st.v.COMMENT_SYMBOL))>>, src, node)

----------------------------------------------------------------------------
(* parse: the body of the loop over pathobj.Path.Commands *)

\* for param in values["PARAMETER_ORDER"]: if param in c.Parameters
declared_keys(v, c) == [i \in 1..Len(c.Parameters) |-> c.Parameters[i].k]

param_keys(v, c) == SelectSeq(v.PARAMETER_ORDER, LAMBDA p : Has(c, p))

\* the token of one parameter: a sequence of no or one token
param_token_feed(v, currLocation, c, param) ==
    IF param = "F" /\ (currLocation["F"] # Val(c, "F") \/ v.OUTPUT_DOUBLES)
    THEN IF Val(c, "F") > 0
         THEN <<Num("F", fmt_speed(Val(c, "F"), v.UNIT_SPEED_FORMAT,
                                   v.FEED_PRECISION), v.FEED_PRECISION)>>
         ELSE << >>
    ELSE IF param = "T" THEN <<Num("T", int(Val(c, "T")), 0)>>
    ELSE IF param = "H" THEN <<Num("H", int(Val(c, "H")), 0)>>
    ELSE IF param \in {"D", "L", "P"} THEN <<Num(param, int(Val(c, param)), 0)>>
    ELSE IF param = "S"
         THEN <<Num("S", fmt(Val(c, "S"), v.SPINDLE_DECIMALS, "G21"),
                    v.SPINDLE_DECIMALS)>>
    ELSE IF /\ ~v.OUTPUT_DOUBLES
            /\ param \in DOMAIN currLocation
            /\ currLocation[param] = Val(c, param)
         THEN << >>
         ELSE <<Num(param, fmt_length(Val(c, param), v.UNIT_FORMAT,
                                      v.AXIS_PRECISION), v.AXIS_PRECISION)>>

param_token(v, currLocation, c, param) ==
    IF param = "F" /\ (currLocation["F"] # Val(c, "F") \/ v.OUTPUT_DOUBLES)
    THEN IF c.Name \notin v.RAPID_MOVES
         THEN IF Val(c, "F") > 0
              THEN <<Num("F", fmt_speed(Val(c, "F"), v.UNIT_SPEED_FORMAT,
                                        v.FEED_PRECISION), v.FEED_PRECISION)>>
              ELSE << >>
         ELSE << >>
    ELSE IF param = "T" THEN <<Num("T", int(Val(c, "T")), 0)>>
    ELSE IF param = "H" THEN <<Num("H", int(Val(c, "H")), 0)>>
    ELSE IF param \in {"D", "L", "P"} THEN <<Num(param, int(Val(c, param)), 0)>>
    ELSE IF param = "S"
         THEN <<Num("S", fmt(Val(c, "S"), v.SPINDLE_DECIMALS, "G21"),
                    v.SPINDLE_DECIMALS)>>
    ELSE IF /\ ~v.OUTPUT_DOUBLES
            /\ param \in DOMAIN currLocation
            /\ currLocation[param] = Val(c, param)
         THEN << >>
         ELSE <<Num(param, fmt_length(Val(c, param), v.UNIT_FORMAT,
                                      v.AXIS_PRECISION), v.AXIS_PRECISION)>>

RECURSIVE param_tokens(_, _, _, _)
param_tokens(v, currLocation, c, keys) ==
    IF keys = << >> THEN << >>
    ELSE param_token(v, currLocation, c, Head(keys))
         \o param_tokens(v, currLocation, c, Tail(keys))

\* if values["MODAL"]: if command == lastcommand: outstring.pop(0)
modal_keep_all(v, command, lastcommand) == TRUE

modal_keep(v, command, lastcommand) == ~(v.MODAL /\ command = lastcommand)

\* currLocation.update(c.Parameters)
update(currLocation, c) ==
    [k \in DOMAIN currLocation \cup Keys(c) |->
        IF Has(c, k) THEN Val(c, k) ELSE currLocation[k]]

\* the tracked position and modes
track_any(v, command, c) ==
    [v EXCEPT
       !.CURRENT_X = IF Has(c, "X") THEN Val(c, "X") ELSE @,
       !.CURRENT_Y = IF Has(c, "Y") THEN Val(c, "Y") ELSE @,
       !.CURRENT_Z = IF Has(c, "Z") THEN Val(c, "Z") ELSE @,
       !.DRILL_RETRACT_MODE =
           IF command \in {<<"G98">>, <<"G99">>} THEN command ELSE @,
       !.MOTION_MODE =
           IF command \in {<<"G90">>, <<"G91">>} THEN command ELSE @]

track(v, command, c) ==
    LET moved == command \in v.MOTION_COMMANDS
    IN  [v EXCEPT
           !.CURRENT_X = IF moved /\ Has(c, "X") THEN Val(c, "X") ELSE @,
           !.CURRENT_Y = IF moved /\ Has(c, "Y") THEN Val(c, "Y") ELSE @,
           !.CURRENT_Z = IF moved /\ Has(c, "Z") THEN Val(c, "Z") ELSE @,
           !.DRILL_RETRACT_MODE =
               IF command \in {<<"G98">>, <<"G99">>} THEN command ELSE @,
           !.MOTION_MODE =
               IF command \in {<<"G90">>, <<"G91">>} THEN command ELSE @]

(* drill_translate.  Every statement of it that appends to trBuff calls
   linenumber() without its argument values, a TypeError.  Outside the try
   block (the echo of the command, the R less than Z comment, the G91 line
   that restores relative mode) the error leaves drill_translate; inside it
   the first append (lines 319-328) raises, the except clause swallows the
   error and trBuff is still empty.  The result: exc, whether an exception
   leaves the function, and trBuff, the lines it returns. *)
drill_translate(v, cmd, c) ==
    IF v.OUTPUT_COMMENTS
    THEN [exc |-> TRUE, trBuff |-> << >>]             \* line 259
    ELSE IF ~({"X", "Y", "Z", "R"} \subseteq Keys(c))
    THEN [exc |-> TRUE, trBuff |-> << >>]             \* lines 267-270, KeyError
    ELSE IF Val(c, "R") < Val(c, "Z")
    THEN [exc |-> TRUE, trBuff |-> << >>]             \* line 274
    ELSE IF \/ ~Has(c, "F")
            \/ cmd = <<"G83">> /\ ~Has(c, "Q")
            \/ cmd = <<"G82">> /\ ~Has(c, "P")
    THEN [exc |-> TRUE, trBuff |-> << >>]             \* lines 290-297, KeyError
    ELSE IF v.MOTION_MODE = <<"G91">>
    THEN [exc |-> TRUE, trBuff |-> << >>]             \* line 302 caught, line 398 not
    ELSE [exc |-> FALSE, trBuff |-> << >>]            \* lines 320-322 caught at 394

(* The steps of the loop body after the parameters, each on the record
   s = [v, out, isList, outstring, exc]: v the values, out the out of this
   call of parse, isList whether out has become a list (out = []), outstring
   the tokens of the line, exc whether an exception was raised. *)

Raise(s) == [s EXCEPT !.exc = TRUE]

\* lines 651-655
do_translate(s, command, c, id, node) ==
    IF s.exc THEN s
    ELSE IF s.v.TRANSLATE_DRILL_CYCLES /\ command \in s.v.DRILL_CYCLES_TO_TRANSLATE
    THEN LET r == drill_translate(s.v, command, c)
         IN  IF r.exc THEN Raise(s)
             ELSE [s EXCEPT !.out = s.out \o r.trBuff, !.outstring = << >>]
    ELSE s

\* lines 657-665: format_outstring(outstring) lacks its argument values
do_spindle_wait(s, command, c, id, node) ==
    IF s.exc THEN s
    ELSE IF /\ s.v.SPINDLE_WAIT > 0
            /\ command \in {<<"M3">>, <<"M03">>, <<"M4">>, <<"M04">>}
    THEN Raise(s)
    ELSE s

\* lines 667-685
do_tool_change(s, command, c, id, node) ==
    IF s.exc THEN s
    ELSE IF command \in {<<"M6">>, <<"M06">>}
    THEN LET a == IF s.v.OUTPUT_COMMENTS
                  THEN PutComment(s, "toolchange_comment",
                                  <<"Begin toolchange">>, id, node)
                  ELSE s
         IN  IF a.v.OUTPUT_TOOL_CHANGE
             THEN LET b == IF a.v.STOP_SPINDLE_FOR_TOOL_CHANGE
                           THEN Put(a, "stop_spindle", <<Word(<<"M5">>)>>, id, node)
                           ELSE a
                  IN  PutBlock(b, "tool_change", b.v.TOOL_CHANGE, id, node)
             ELSE IF a.v.OUTPUT_COMMENTS
                  THEN Raise(a)       \* line 682: format_outstring(outstring)
                  ELSE a
    ELSE s

\* lines 687-691
do_message(s, command, c, id, node) ==
    IF s.exc THEN s
    ELSE IF command = <<"message">> /\ s.v.REMOVE_MESSAGES
    THEN IF ~s.v.OUTPUT_COMMENTS
         THEN [s EXCEPT !.out = << >>, !.isList = TRUE]
         ELSE IF s.outstring = << >>
              THEN Raise(s)           \* pop from an empty list
              ELSE [s EXCEPT !.outstring = Tail(s.outstring)]
    ELSE s

\* lines 693-699
do_suppress(s, command, c, id, node) ==
    IF s.exc THEN s
    ELSE IF command \in s.v.SUPPRESS_COMMANDS
    THEN IF s.v.OUTPUT_COMMENTS
         THEN Raise(s)                \* line 696: format_outstring(outstring)
         ELSE [s EXCEPT !.outstring = << >>]
    ELSE s

\* lines 701-712
do_emit_any(s, command, c, id, node) ==
    IF s.exc THEN s ELSE Put(s, "command", s.outstring, id, node)

do_emit(s, command, c, id, node) ==
    IF s.exc THEN s
    ELSE IF Len(s.outstring) >= 1
    THEN Put(s, "command", s.outstring, id, node)
    ELSE s

\* if command in ("M6", "M06") and values["USE_TLO"]
height_offset_always(v, command) == command \in {<<"M6">>, <<"M06">>}

height_offset(v, command) == command \in {<<"M6">>, <<"M06">>} /\ v.USE_TLO

\* lines 714-716
do_tlo(s, command, c, id, node) ==
    IF s.exc THEN s
    ELSE IF height_offset(s.v, command)
    THEN IF Has(c, "T")
         THEN Put(s, "tlo", <<Word(<<"G43">>), Num("H", int(Val(c, "T")), 0)>>,
                  id, node)
         ELSE Raise(s)                \* KeyError
    ELSE s

\* lines 718-724
do_machine_specific(s, command, c, id, node) ==
    IF s.exc THEN s
    ELSE IF s.v.ENABLE_MACHINE_SPECIFIC_COMMANDS /\ mc_match(command)
    THEN Put(s, "raw", <<Word(mc_group(command))>>, id, node)
    ELSE s

\* lines 572-577: a comment is passed over when comments are not output
skip_comment_never(v, name) == FALSE

skip_comment(v, name) == Head(name) = "(" /\ ~v.OUTPUT_COMMENTS

\* lines 566-724 for the command c, the id-th of the stream, in the call fr
\* of parse: the values and the call after it, and whether it raised
parse_command(v0, fr, c, id) ==
    IF skip_comment(v0, c.Name)
    THEN [v |-> v0, fr |-> fr, exc |-> FALSE]          \* continue
    ELSE
    LET command == IF Head(c.Name) = "(" /\ v0.COMMENT_SYMBOL # <<"(">>
                   THEN fcoms(c.Name, v0.COMMENT_SYMBOL)
                   ELSE c.Name
        outstring == (IF modal_keep(v0, command, fr.lastcommand)
                      THEN <<Word(command)>> ELSE << >>)
                     \o param_tokens(v0, fr.currLocation, c, param_keys(v0, c))
        s0 == [v |-> track(v0, command, c), out |-> fr.out,
               isList |-> fr.isList, outstring |-> outstring, exc |-> FALSE]
        s1 == do_translate(s0, command, c, id, fr.node)
        s2 == do_spindle_wait(s1, command, c, id, fr.node)
        s3 == do_tool_change(s2, command, c, id, fr.node)
        s4 == do_message(s3, command, c, id, fr.node)
        s5 == do_suppress(s4, command, c, id, fr.node)
        s6 == do_emit(s5, command, c, id, fr.node)
        s7 == do_tlo(s6, command, c, id, fr.node)
        s8 == do_machine_specific(s7, command, c, id, fr.node)
    IN  [v |-> s8.v,
         fr |-> [fr EXCEPT !.out = s8.out, !.isList = s8.isList,
                           !.lastcommand = command,
                           !.currLocation = update(fr.currLocation, c)],
         exc |-> s8.exc]

----------------------------------------------------------------------------
(* The calls of parse *)

\* out, lastcommand and currLocation of a new call (lines 540-547)
Frame(node, group, out) ==
    [node |-> node, group |-> group, out |-> out, isList |-> FALSE,
     lastcommand |-> << >>,
     currLocation |-> [k \in {"X", "Y", "Z", "F"} |->
                          IF k = "F" THEN 0 ELSE 0 - 1000]]

\* lines 549-564: the call's values and first lines
parse_enter(v, group, node) ==
    LET st == [v |-> v, out |-> << >>]
    IN  IF v.OUTPUT_COMMENTS
        THEN PutComment(st, IF group THEN "compound_label" ELSE "path_label",
                        <<IF group THEN "compound: " ELSE "Path: ", "Label">>,
                        0, node)
        ELSE st

\* hasattr(obj, "Path"): a group has a Path too, other objects (stock) none
has_path_any(kind) == TRUE

has_path(kind) == kind # "nopath"

\* if hasattr(obj, "Active"): if not obj.Active: continue
\* if hasattr(obj, "Base") and hasattr(obj.Base, "Active"): if not obj.Base.Active
is_inactive(act) == act \in {"off", "baseoff"}

\* the mark of the id-th call of parse: negative when its object is not active
Mark(id, act, parent) == IF is_inactive(act) \/ parent < 0 THEN 0 - id ELSE id

\* the text generated so far, in output order
RECURSIVE Outs(_)
Outs(st) == IF st = << >> THEN << >> ELSE Head(st).out \o Outs(Tail(st))

Emitted == gcode \o Outs(stack)

Top == stack[Len(stack)]

----------------------------------------------------------------------------
(* refactored_grbl_post: the module's globals, its parser, processArguments
   and the part of export before the call of export_common *)

\* the globals PREAMBLE, POSTAMBLE and UNITS when the module has been loaded
GrblGlobals ==
    [ PREAMBLE |-> <<<<"G17", "G90">>>>,
      POSTAMBLE |-> <<<<"M5">>, <<"G17", "G90">>, <<"M2">>>>,
      UNITS |-> "G21" ]

\* an option of the argument string; a text that int() is applied to is the
\* record of whether it is a number, and of the number
Opt(name, val) == [name |-> name, val |-> val]

Text(isint, v) == [isint |-> isint, v |-> v]

\* the options added to parser
parser ==
    { "--comments", "--no-comments", "--header", "--no-header",
      "--line-numbers", "--no-line-numbers", "--show-editor",
      "--no-show-editor", "--precision", "--translate_drill",
      "--no-translate_drill", "--preamble", "--postamble", "--inches",
      "--tool-change", "--wait-for-spindle", "--return-to", "--bcnc",
      "--no-bcnc" }

\* the option is in the argument string; its value (of its last occurrence)
Given(args, name) == \E i \in 1..Len(args) : args[i].name = name

Arg(args, name) ==
    LET i == CHOOSE j \in 1..Len(args) :
                /\ args[j].name = name
                /\ \A k \in (j + 1)..Len(args) : args[k].name # name
    IN  args[i].val

\* parser.parse_args leaves by sys.exit(2), a SystemExit, on an option that
\* is not known, and on a --wait-for-spindle that is not an int
parse_args_exits(args) ==
    \/ \E i \in 1..Len(args) : args[i].name \notin parser
    \/ /\ Given(args, "--wait-for-spindle")
       /\ ~Arg(args, "--wait-for-spindle")[1].isint

\* if args.no_x: values[X] = False; if args.x: values[X] = True
Flag(args, off, on, old) ==
    IF Given(args, on) THEN TRUE ELSE IF Given(args, off) THEN FALSE ELSE old

(* processArguments, lines 134-192.  exit: a SystemExit leaves the function;
   ok: the value it returns; v, g: values and the globals after it.  An
   exception of int() at line 180 is caught at line 189: what was assigned
   before it stays.  SHOW_EDITOR is not part of the values modelled. *)
processArguments(v, g, args) ==
    IF parse_args_exits(args)
    THEN [exit |-> TRUE, ok |-> FALSE, v |-> v, g |-> g]
    ELSE
    LET precision == IF Given(args, "--precision")
                     THEN Arg(args, "--precision")[1] ELSE 3
        inches == Given(args, "--inches")
        wait == IF Given(args, "--wait-for-spindle")
                THEN Arg(args, "--wait-for-spindle")[1].v ELSE 0
        coords == IF Given(args, "--return-to")
                  THEN Arg(args, "--return-to") ELSE << >>
        bad == \E i \in 1..Len(coords) : ~coords[i].isint
        g1 == [g EXCEPT
                 !.PREAMBLE = IF Given(args, "--preamble")
                              THEN Arg(args, "--preamble") ELSE @,
                 !.POSTAMBLE = IF Given(args, "--postamble")
                               THEN Arg(args, "--postamble") ELSE @,
                 !.UNITS = IF inches THEN "G20" ELSE @]
        v1 == [v EXCEPT
                 !.OUTPUT_HEADER = Flag(args, "--no-header", "--header", @),
                 !.OUTPUT_COMMENTS = Flag(args, "--no-comments", "--comments", @),
                 !.OUTPUT_LINE_NUMBERS =
                     Flag(args, "--no-line-numbers", "--line-numbers", @),
                 !.AXIS_PRECISION = IF inches THEN 4 ELSE precision,
                 !.FEED_PRECISION = IF inches THEN 4 ELSE precision,
                 !.TRANSLATE_DRILL_CYCLES =
                     Flag(args, "--no-translate_drill", "--translate_drill", @),
                 !.UNIT_SPEED_FORMAT = IF inches THEN "in/min" ELSE @,
                 !.UNIT_FORMAT = IF inches THEN "in" ELSE @,
                 !.OUTPUT_TOOL_CHANGE =
                     IF Given(args, "--tool-change") THEN TRUE ELSE @,
                 !.SPINDLE_WAIT = IF wait > 0 THEN wait ELSE @]
        v2 == [v1 EXCEPT
                 !.RETURN_TO = IF coords = << >> THEN @
                               ELSE IF Len(coords) # 2 THEN << >>
                               ELSE [i \in 1..2 |-> coords[i].v],
                 !.OUTPUT_BCNC = IF Given(args, "--no-bcnc") THEN FALSE
                                 ELSE IF Given(args, "--bcnc") THEN TRUE
                                 ELSE @]
    IN  IF bad
        THEN [exit |-> FALSE, ok |-> FALSE, v |-> v1, g |-> g1]
        ELSE [exit |-> FALSE, ok |-> TRUE, v |-> v2, g |-> g1]

\* export, lines 203-231: the values before processArguments
grbl_values ==
    [init_shared_values EXCEPT !.ENABLE_MACHINE_SPECIFIC_COMMANDS = TRUE,
                               !.OUTPUT_TOOL_CHANGE = FALSE,
                               !.USE_TLO = FALSE]

\* export, lines 233-241, with the globals g: what processArguments did, and
\* the values handed to export_common
export_values(g, args) ==
    LET r == processArguments(grbl_values, g, args)
    IN  [r EXCEPT !.v = [r.v EXCEPT !.POSTAMBLE = r.g.POSTAMBLE,
                                    !.PREAMBLE = r.g.PREAMBLE,
                                    !.UNITS = r.g.UNITS]]

----------------------------------------------------------------------------
(* export_common *)

SeqsUpTo(S, n) == UNION {[1..k -> S] : k \in 0..n}

InitWith(configs, d) ==
    /\ values \in configs
    /\ dom = d
    /\ objectslist \in SeqsUpTo(d.kinds, MaxNodes)
    /\ objidx = 1
    /\ pc = "start"
    /\ gcode = << >>
    /\ stack = << >>
    /\ coolantMode = "None"
    /\ final = "running"
    /\ stream = << >>
    /\ calls = 0
    /\ kids = 0
    /\ globals = GrblGlobals
    /\ argstring = << >>
    /\ exports = 0

\* lines 732-737
PreCheckFail ==
    /\ pc = "start"
    /\ \E i \in 1..Len(objectslist) : ~has_path(objectslist[i])
    /\ pc' = "done"
    /\ final' = "None"
    /\ UNCHANGED <<values, dom, objectslist, objidx, gcode, stack, coolantMode,
                   stream, calls, kids, post>>

\* lines 746-763
header(st) ==
    IF st.v.OUTPUT_HEADER
    THEN PutComment(PutComment(PutComment(PutComment(st,
            "header", <<"Exported by FreeCAD">>, 0, 0),
            "header", <<"Post Processor: ", "POSTPROCESSOR_FILE_NAME">>, 0, 0),
            "header", <<"Cam File: ", "cam_file">>, 0, 0),
            "header", <<"Output Time:", "now">>, 0, 0)
    ELSE st

\* lines 765-770
suppress_drill(st) ==
    IF st.v.TRANSLATE_DRILL_CYCLES
    THEN [st EXCEPT !.v.SUPPRESS_COMMANDS =
                        @ \cup {<<"G99">>, <<"G98">>, <<"G80">>}]
    ELSE st

\* lines 772-789 (no tool controller among the objects)
preamble(st) ==
    LET a == PutBlock(st, "safetyblock", st.v.SAFETYBLOCK, 0, 0)
        b == IF a.v.OUTPUT_COMMENTS
             THEN PutComment(a, "preamble_comment", <<"begin preamble">>, 0, 0)
             ELSE a
    IN  PutBlock(b, "preamble", b.v.PREAMBLE, 0, 0)

\* lines 790-796: exc when the motion mode line is to be written, by
\* linenumber() without its argument
motion_mode(st) ==
    IF Contains(st.v.PREAMBLE, "G90")
    THEN [st EXCEPT !.v.MOTION_MODE = <<"G90">>]
    ELSE IF Contains(st.v.PREAMBLE, "G91")
    THEN [st EXCEPT !.v.MOTION_MODE = <<"G91">>]
    ELSE [st EXCEPT !.exc = TRUE]

\* lines 797-806
units(st) ==
    IF Contains(st.v.PREAMBLE, "G21")
    THEN [st EXCEPT !.v.UNITS = "G21", !.v.UNIT_FORMAT = "mm",
                    !.v.UNIT_SPEED_FORMAT = "mm/min"]
    ELSE IF Contains(st.v.PREAMBLE, "G20")
    THEN [st EXCEPT !.v.UNITS = "G20", !.v.UNIT_FORMAT = "in",
                    !.v.UNIT_SPEED_FORMAT = "in/min"]
    ELSE Put(st, "units", <<Word(<<st.v.UNITS>>)>>, 0, 0)

\* lines 742-806
Prologue ==
    /\ pc = "start"
    /\ \A i \in 1..Len(objectslist) : has_path(objectslist[i])
    /\ LET a == motion_mode(preamble(suppress_drill(header(
                    [v |-> values, out |-> gcode, exc |-> FALSE]))))
       IN  IF a.exc
           THEN /\ pc' = "raised"
                /\ final' = "exception"
                /\ UNCHANGED <<values, gcode>>
           ELSE /\ pc' = "loop"
                /\ values' = units(a).v
                /\ gcode' = units(a).out
                /\ UNCHANGED final
    /\ UNCHANGED <<dom, objectslist, objidx, stack, coolantMode, stream, calls,
                   kids, post>>

\* lines 815-821
SkipInactive ==
    /\ pc = "loop"
    /\ objidx <= Len(objectslist)
    /\ \E act \in dom.activity : is_inactive(act)
    /\ objidx' = objidx + 1
    /\ UNCHANGED <<values, dom, objectslist, pc, gcode, stack, coolantMode,
                   final, stream, calls, kids, post>>

\* lines 823-845
pre_op(st) ==
    LET a == IF st.v.OUTPUT_BCNC
             THEN PutComment(PutComment(PutComment(st,
                     "bcnc", <<"Block-name: ", "Label">>, 0, 0),
                     "bcnc", <<"Block-expand: 0">>, 0, 0),
                     "bcnc", <<"Block-enable: 1">>, 0, 0)
             ELSE st
        b == IF a.v.OUTPUT_COMMENTS
             THEN PutComment(a, "begin_operation",
                             IF a.v.SHOW_OPERATION_LABELS
                             THEN <<"begin operation: ", "Label">>
                             ELSE <<"begin operation">>, 0, 0)
             ELSE a
        c == IF b.v.OUTPUT_COMMENTS /\ b.v.SHOW_MACHINE_UNITS
             THEN PutComment(b, "machine_units",
                             <<"machine units: ", b.v.UNIT_SPEED_FORMAT>>, 0, 0)
             ELSE b
    IN  PutBlock(c, "pre_operation", c.v.PRE_OPERATION, 0, 0)

\* lines 855-864
coolant_on(st, mode) ==
    IF st.v.ENABLE_COOLANT
    THEN LET a == IF st.v.OUTPUT_COMMENTS /\ mode # "None"
                  THEN PutComment(st, "coolant_comment",
                                  <<"Coolant On:", mode>>, 0, 0)
                  ELSE st
             b == IF mode = "Flood"
                  THEN Put(a, "coolant_on", <<Word(<<"M8">>)>>, 0, 0)
                  ELSE a
         IN  IF mode = "Mist"
             THEN Put(b, "coolant_on", <<Word(<<"M7">>)>>, 0, 0)
             ELSE b
    ELSE st

\* lines 823-867: up to the call of parse
BeginOperation ==
    /\ pc = "loop"
    /\ objidx <= Len(objectslist)
    /\ \E act \in dom.activity, mode \in dom.coolant :
          /\ ~is_inactive(act)
          /\ LET a == coolant_on(pre_op([v |-> values, out |-> gcode]), mode)
                 id == Mark(calls + 1, act, 0)
                 group == objectslist[objidx] = "group"
                 e == parse_enter(a.v, group, id)
             IN  /\ gcode' = a.out
                 /\ values' = e.v
                 /\ stack' = <<Frame(id, group, e.out)>>
          /\ coolantMode' = mode
    /\ calls' = calls + 1
    /\ pc' = "parse"
    /\ UNCHANGED <<dom, objectslist, objidx, final, stream, kids, post>>

\* lines 553-554: out += parse(values, p), up to the first command or child of p
ParseChild ==
    /\ pc = "parse"
    /\ Top.group
    /\ Len(objectslist) + kids < MaxNodes
    /\ \E kind \in dom.kinds, act \in dom.activity :
          LET id == Mark(calls + 1, act, Top.node)
              e == parse_enter(values, kind = "group", id)
          IN  IF ~has_path(kind)
              THEN UNCHANGED <<values, stack>>          \* lines 559-560
              ELSE /\ values' = e.v
                   /\ stack' = Append(stack, Frame(id, kind = "group", e.out))
    /\ calls' = calls + 1
    /\ kids' = kids + 1
    /\ UNCHANGED <<dom, objectslist, objidx, pc, gcode, coolantMode, final,
                   stream, post>>

\* lines 566-724: one command of the path
ParseCommand ==
    /\ pc = "parse"
    /\ ~Top.group
    /\ Len(stream) < MaxCmds
    /\ \E c \in dom.cmds :
          LET r == parse_command(values, Top, c, Len(stream) + 1)
          IN  /\ stream' = Append(stream, [c |-> c, node |-> Top.node])
              /\ IF r.exc
                 THEN /\ pc' = "raised"
                      /\ final' = "exception"
                      /\ UNCHANGED <<values, stack>>
                 ELSE /\ values' = r.v
                      /\ stack' = [stack EXCEPT ![Len(stack)] = r.fr]
                      /\ UNCHANGED <<pc, final>>
    /\ UNCHANGED <<dom, objectslist, objidx, gcode, coolantMode, calls, kids,
                   post>>

\* return out: out += parse(values, p) in the caller (line 554), or
\* gcode += parse(values, obj) in export_common (line 867); a list cannot be
\* added to a string
ParseReturn ==
    /\ pc = "parse"
    /\ IF Top.isList
       THEN /\ pc' = "raised"
            /\ final' = "exception"
            /\ UNCHANGED <<gcode, stack>>
       ELSE IF Len(stack) = 1
       THEN /\ gcode' = gcode \o Top.out
            /\ stack' = << >>
            /\ pc' = "postop"
            /\ UNCHANGED final
       ELSE /\ stack' = [SubSeq(stack, 1, Len(stack) - 1)
                            EXCEPT ![Len(stack) - 1].out = @ \o Top.out]
            /\ UNCHANGED <<gcode, pc, final>>
    /\ UNCHANGED <<values, dom, objectslist, objidx, coolantMode, stream,
                   calls, kids, post>>

\* lines 869-885
post_op(st, mode) ==
    LET a == IF st.v.OUTPUT_COMMENTS
             THEN PutComment(st, "finish_operation",
                             <<"Finish operation: ", "Label">>, 0, 0)
             ELSE st
        b == PutBlock(a, "post_operation", a.v.POST_OPERATION, 0, 0)
        c == IF b.v.ENABLE_COOLANT /\ mode # "None" /\ b.v.OUTPUT_COMMENTS
             THEN PutComment(b, "coolant_comment", <<"Coolant Off:", mode>>, 0, 0)
             ELSE b
    IN  IF c.v.ENABLE_COOLANT /\ mode # "None"
        THEN Put(c, "coolant_off", <<Word(<<"M9">>)>>, 0, 0)
        ELSE c

EndOperation ==
    /\ pc = "postop"
    /\ LET a == post_op([v |-> values, out |-> gcode], coolantMode)
       IN  /\ values' = a.v
           /\ gcode' = a.out
    /\ pc' = "loop"
    /\ objidx' = objidx + 1
    /\ UNCHANGED <<dom, objectslist, stack, coolantMode, final, stream, calls,
                   kids, post>>

\* lines 890-906
postamble(st) ==
    LET a == IF st.v.OUTPUT_BCNC
             THEN PutComment(PutComment(PutComment(st,
                     "bcnc", <<"Block-name: post_amble">>, 0, 0),
                     "bcnc", <<"Block-expand: 0">>, 0, 0),
                     "bcnc", <<"Block-enable: 1">>, 0, 0)
             ELSE st
        b == IF a.v.OUTPUT_COMMENTS
             THEN PutComment(a, "postamble_comment", <<"begin postamble">>, 0, 0)
             ELSE a
        c == PutBlock(b, "toolreturn", b.v.TOOLRETURN, 0, 0)
        d == PutBlock(c, "safetyblock", c.v.SAFETYBLOCK, 0, 0)
    IN  PutBlock(d, "postamble", d.v.POSTAMBLE, 0, 0)

\* lines 887-928: the return-to move calls linenumber() without its argument
Epilogue ==
    /\ pc = "loop"
    /\ objidx > Len(objectslist)
    /\ IF values.RETURN_TO # << >>
       THEN /\ pc' = "raised"
            /\ final' = "exception"
            /\ UNCHANGED <<values, gcode>>
       ELSE LET a == postamble([v |-> values, out |-> gcode])
            IN  /\ values' = a.v
                /\ gcode' = a.out
                /\ pc' = "done"
                /\ final' = "text"
    /\ UNCHANGED <<dom, objectslist, objidx, stack, coolantMode, stream, calls,
                   kids, post>>

Next ==
    \/ PreCheckFail
    \/ Prologue
    \/ SkipInactive
    \/ BeginOperation
    \/ ParseChild
    \/ ParseCommand
    \/ ParseReturn
    \/ EndOperation
    \/ Epilogue

(* export of refactored_grbl_post.  The module is loaded once and export is
   called for one job after the other (pc = "idle": no export is running). *)

MaxExports == 2

\* lines 195-241, up to the call of export_common
Export ==
    /\ pc = "idle"
    /\ \E args \in dom.args :
          LET r == export_values(globals, args)
          IN  /\ argstring' = args
              /\ globals' = r.g
              /\ IF r.exit
                 THEN /\ pc' = "raised"
                      /\ final' = "exception"
                      /\ UNCHANGED values
                 ELSE IF ~r.ok
                 THEN /\ pc' = "done"
                      /\ final' = "None"
                      /\ UNCHANGED values
                 ELSE /\ pc' = "start"
                      /\ final' = "running"
                      /\ values' = r.v
    /\ exports' = exports + 1
    /\ UNCHANGED <<dom, objectslist, objidx, gcode, stack, coolantMode, stream,
                   calls, kids>>

\* the export has ended and the host goes on: the globals of the module stay,
\* everything else belongs to the export that is over
Idle ==
    /\ pc \in {"done", "raised"}
    /\ exports < MaxExports
    /\ pc' = "idle"
    /\ values' = init_shared_values
    /\ objidx' = 1
    /\ gcode' = << >>
    /\ stack' = << >>
    /\ coolantMode' = "None"
    /\ final' = "running"
    /\ stream' = << >>
    /\ calls' = 0
    /\ kids' = 0
    /\ UNCHANGED <<dom, objectslist, globals, argstring, exports>>

NextPost ==
    \/ Next
    \/ Export
    \/ Idle

----------------------------------------------------------------------------
(* Inputs *)

G0(x, y, z) == Cmd(<<"G0">>, <<Par("X", x), Par("Y", y), Par("Z", z)>>)

\* a toolchange to tool 2, a spindle start at 1000 rpm
M6T2 == Cmd(<<"M6">>, <<Par("T", 2000)>>)

M3S1000 == Cmd(<<"M3">>, <<Par("S", 1000000)>>)

\* a peck cycle from R = 5 down to Z = -10 in steps of 4; a cycle with R below Z
G83Peck == Cmd(<<"G83">>, <<Par("X", 1000), Par("Y", 2000), Par("Z", 0 - 10000),
                            Par("R", 5000), Par("Q", 4000), Par("F", 2000)>>)

\* G83Peck with the step q
G83Step(q) ==
    Cmd(<<"G83">>, <<Par("X", 1000), Par("Y", 2000), Par("Z", 0 - 10000),
                     Par("R", 5000), Par("Q", q), Par("F", 2000)>>)

\* a cycle with a dwell of 1.5 s at Z = -10
G82Dwell == Cmd(<<"G82">>, <<Par("X", 1000), Par("Y", 2000), Par("Z", 0 - 10000),
                             Par("R", 5000), Par("P", 1500), Par("F", 2000)>>)

G81Low == Cmd(<<"G81">>, <<Par("X", 1000), Par("Y", 2000), Par("Z", 0 - 2000),
                           Par("R", 0 - 5000), Par("F", 2000)>>)

Structure == [kinds |-> {"leaf", "group", "nopath"},
              activity |-> {"on", "off", "baseoff"},
              coolant |-> {"None"}]

\* the PREAMBLE of refactored_grbl_post, and no header (--no-header)
Grbl == [PREAMBLE |-> <<<<"G17", "G90">>>>, OUTPUT_HEADER |-> FALSE]

\* the line emitter: modal and doubles suppression, with and without comments
EmitConfigs ==
    {Configured(Grbl @@ o) :
        o \in [OUTPUT_COMMENTS : BOOLEAN, MODAL : BOOLEAN,
               OUTPUT_DOUBLES : BOOLEAN]}

\* the third command declares its parameters out of order, one of them (E)
\* not in PARAMETER_ORDER, and has the Y of firstmove
EmitCmds ==
    { G0(10000, 20000, 30000), G0(10000, 30000, 30000),
      Cmd(<<"G1">>, <<Par("F", 5000), Par("Y", 0 - 1000), Par("E", 2000),
                      Par("X", 10000)>>) }

Init == InitWith(EmitConfigs, Structure @@ [cmds |-> EmitCmds])

Spec == Init /\ [][Next]_vars

\* line numbers: every kind of line that parse and export_common number, on
\* a plain machine and on one that waits for the spindle and translates
\* drill cycles
NumConfigs ==
    {Configured(Grbl @@ [OUTPUT_LINE_NUMBERS |-> TRUE,
                         TOOL_CHANGE |-> <<<<"M0">>, <<"G49">>>>] @@ o @@ m) :
        o \in [OUTPUT_COMMENTS : BOOLEAN],
        m \in {[SPINDLE_WAIT |-> 0, TRANSLATE_DRILL_CYCLES |-> FALSE],
               [SPINDLE_WAIT |-> 2, TRANSLATE_DRILL_CYCLES |-> TRUE]}}

NumCmds == { M6T2, M3S1000, G83Peck, Cmd(<<"G98">>, << >>) }

InitNum == InitWith(NumConfigs, Structure @@ [cmds |-> NumCmds])

SpecNum == InitNum /\ [][Next]_vars

\* tool changes and spindle starts: the tool-change block, the tool length
\* offset and the wait for the spindle, each on and off
ToolConfigs ==
    {Configured(Grbl @@ [TOOL_CHANGE |-> <<<<"M0">>>>] @@ o) :
        o \in [OUTPUT_COMMENTS : BOOLEAN, OUTPUT_TOOL_CHANGE : BOOLEAN,
               USE_TLO : BOOLEAN, SPINDLE_WAIT : {0, 2}]}

ToolCmds == { M6T2, M3S1000, G0(10000, 20000, 30000) }

InitTool == InitWith(ToolConfigs, Structure @@ [cmds |-> ToolCmds])

SpecTool == InitTool /\ [][Next]_vars

\* drill cycles translated to G0 and G1 moves
DrillConfigs ==
    {Configured(Grbl @@ [TRANSLATE_DRILL_CYCLES |-> TRUE] @@ o) :
        o \in [OUTPUT_COMMENTS : BOOLEAN, MODAL : BOOLEAN]}

DrillCmds ==
    { G83Peck, G83Step(0), G83Step(0 - 4000), G81Low, G82Dwell,
      G0(10000, 20000, 30000), Cmd(<<"G91">>, << >>) }

InitDrill == InitWith(DrillConfigs, Structure @@ [cmds |-> DrillCmds])

SpecDrill == InitDrill /\ [][Next]_vars

\* coolant: the operations' CoolantMode is None, Flood, Mist or another string
CoolantConfigs ==
    {Configured(Grbl @@ o) :
        o \in [ENABLE_COOLANT : BOOLEAN, OUTPUT_COMMENTS : BOOLEAN]}

CoolantModes == {"None", "Flood", "Mist", "Air"}

InitCoolant ==
    InitWith(CoolantConfigs,
             [Structure EXCEPT !.coolant = CoolantModes]
                @@ [cmds |-> {G0(10000, 20000, 30000)}])

SpecCoolant == InitCoolant /\ [][Next]_vars

\* the blocks around the operations: the values of init_shared_values as they
\* are, the same without header and comments (a post that sets nothing and is
\* given no arguments but these), the grbl post, and the grbl post with
\* --return-to
ReturnTo == <<1, 2, 3>>

\* a post with every block of export_common set, and coolant
Blocks ==
    [ SAFETYBLOCK |-> <<<<"G40">>>>, PRE_OPERATION |-> <<<<"G54">>>>,
      POST_OPERATION |-> <<<<"G55">>>>, TOOLRETURN |-> <<<<"M5">>>>,
      POSTAMBLE |-> <<<<"M2">>>>, ENABLE_COOLANT |-> TRUE ]

EndsConfigs ==
    { Configured(<< >>),
      Configured([OUTPUT_HEADER |-> FALSE, OUTPUT_COMMENTS |-> FALSE]),
      Configured(Grbl @@ Blocks),
      Configured(Grbl @@ [OUTPUT_COMMENTS |-> FALSE]),
      Configured(Grbl @@ [RETURN_TO |-> ReturnTo, TOOLRETURN |-> <<<<"M5">>>>]) }

InitEnds ==
    InitWith(EndsConfigs,
             [Structure EXCEPT !.coolant = {"None", "Flood"}]
                @@ [cmds |-> {G0(10000, 20000, 30000)}])

SpecEnds == InitEnds /\ [][Next]_vars

\* comments: a comment of the path and one that holds a machine-specific
\* command, with the comment symbols "(", ";" and "//"; line numbers and
\* coolant are on, so that a comment that is written shows in the numbering
\* and the coolant notes are due
Comment == Cmd(<<"(", "comment", ")">>, << >>)

McRun == Cmd(<<"(", "MC_RUN_COMMAND: ", "blah", ")">>, << >>)

CommentConfigs ==
    {Configured(Grbl @@ [OUTPUT_LINE_NUMBERS |-> TRUE, ENABLE_COOLANT |-> TRUE,
                         ENABLE_MACHINE_SPECIFIC_COMMANDS |-> TRUE] @@ o) :
        o \in [OUTPUT_COMMENTS : BOOLEAN,
               COMMENT_SYMBOL : {<<"(">>, <<";">>, <<"/", "/">>}]}
    \cup {Configured(Grbl @@ [OUTPUT_LINE_NUMBERS |-> TRUE,
                              ENABLE_COOLANT |-> TRUE])}

CommentCmds == { Comment, McRun, G0(10000, 20000, 30000) }

InitComment ==
    InitWith(CommentConfigs,
             [Structure EXCEPT !.coolant = {"Flood"}] @@ [cmds |-> CommentCmds])

SpecComment == InitComment /\ [][Next]_vars

\* the grbl post called for one job after the other, with argument strings
\* that are empty, change the units or the preamble, hold an option that the
\* parser does not know, or hold a --return-to that is not a number
PostArgs ==
    { << >>,
      <<Opt("--inches", << >>)>>,
      <<Opt("--no-header", << >>), Opt("--preamble", <<<<"G91">>>>)>>,
      <<Opt("--metric", << >>)>>,
      <<Opt("--return-to", <<Text(TRUE, 1), Text(FALSE, 0)>>)>> }

InitPost ==
    /\ values = init_shared_values
    /\ dom = [Structure EXCEPT !.activity = {"on", "off"}]
                @@ [cmds |-> {G0(1000, 2000, 3000)}, args |-> PostArgs]
    /\ objectslist \in SeqsUpTo(dom.kinds, MaxNodes)
    /\ objidx = 1
    /\ pc = "idle"
    /\ gcode = << >>
    /\ stack = << >>
    /\ coolantMode = "None"
    /\ final = "running"
    /\ stream = << >>
    /\ calls = 0
    /\ kids = 0
    /\ globals = GrblGlobals
    /\ argstring = << >>
    /\ exports = 0

SpecPost == InitPost /\ [][NextPost]_vars

\* units: a metric post, the values that --inches gives (G20, precision 4),
\* and a post whose preamble switches to inches; lengths of 25.4 mm, 1 mm and
\* -12.7 mm, and a feed
\* the tracked position and modes: moves with all and with some of the
\* axes, a command with axes that is no move, and commands that set a mode,
\* with and without the translation of drill cycles, which suppresses G99
TrackConfigs ==
    {Configured(Grbl @@ o) : o \in [MODAL : BOOLEAN]}
    \cup {Configured(Grbl @@ [TRANSLATE_DRILL_CYCLES |-> TRUE] @@ o) :
             o \in [OUTPUT_COMMENTS : BOOLEAN]}

TrackCmds ==
    { G0(10000, 20000, 30000),
      Cmd(<<"G1">>, <<Par("X", 5000), Par("F", 1000)>>),
      Cmd(<<"G92">>, <<Par("X", 0), Par("Y", 0)>>),
      Cmd(<<"G99">>, << >>), Cmd(<<"G91">>, << >>) }

InitTrack ==
    InitWith(TrackConfigs,
             [Structure EXCEPT !.activity = {"on", "off"}]
                @@ [cmds |-> TrackCmds])

SpecTrack == InitTrack /\ [][Next]_vars

\* commands that parse takes out of the code: a message, and G80, which is
\* suppressed when drill cycles are translated
Message == Cmd(<<"message">>, <<Par("P", 1000)>>)

DropConfigs ==
    {Configured(Grbl @@ o) :
        o \in [OUTPUT_COMMENTS : BOOLEAN, TRANSLATE_DRILL_CYCLES : BOOLEAN]}

DropCmds == { Message, Cmd(<<"G80">>, << >>), G0(10000, 20000, 30000) }

InitDrop == InitWith(DropConfigs, Structure @@ [cmds |-> DropCmds])

SpecDrop == InitDrop /\ [][Next]_vars

\* numbered lines of commands that lose all their tokens: a repeated move
\* under MODAL without OUTPUT_DOUBLES, and G80 when drill cycles are
\* translated
ZeroConfigs ==
    {Configured(Grbl @@ [OUTPUT_LINE_NUMBERS |-> TRUE,
                         OUTPUT_COMMENTS |-> FALSE] @@ o) :
        o \in [MODAL : BOOLEAN, OUTPUT_DOUBLES : BOOLEAN]}
    \cup {Configured(Grbl @@ [OUTPUT_LINE_NUMBERS |-> TRUE,
                              OUTPUT_COMMENTS |-> FALSE,
                              TRANSLATE_DRILL_CYCLES |-> TRUE])}

ZeroCmds ==
    { G0(10000, 20000, 30000), G0(10000, 30000, 30000), Cmd(<<"G80">>, << >>) }

InitZero == InitWith(ZeroConfigs, Structure @@ [cmds |-> ZeroCmds])

SpecZero == InitZero /\ [][Next]_vars

\* rapid and feed moves with a feed rate: one that the move before it had,
\* one that it had not, and the 0 of the first location
FeedConfigs ==
    {Configured(Grbl @@ [OUTPUT_COMMENTS |-> FALSE] @@ o) :
        o \in [MODAL : BOOLEAN, OUTPUT_DOUBLES : BOOLEAN]}

FeedCmds ==
    { Cmd(<<"G0">>, <<Par("X", 10000), Par("F", 5000)>>),
      Cmd(<<"G00">>, <<Par("X", 10000), Par("F", 0)>>),
      Cmd(<<"G1">>, <<Par("X", 20000), Par("F", 5000)>>) }

InitFeed == InitWith(FeedConfigs, Structure @@ [cmds |-> FeedCmds])

SpecFeed == InitFeed /\ [][Next]_vars

\* first moves: one to the position X-1 Y-1, which the first location of
\* parse holds, and one elsewhere
FirstConfigs ==
    {Configured(Grbl @@ o) :
        o \in [OUTPUT_DOUBLES : BOOLEAN, OUTPUT_COMMENTS : BOOLEAN]}

FirstCmds ==
    { G0(0 - 1000, 0 - 1000, 5000), G0(10000, 20000, 30000),
      Cmd(<<"G1">>, <<Par("Z", 0 - 1000), Par("F", 1000)>>) }

InitFirst == InitWith(FirstConfigs, Structure @@ [cmds |-> FirstCmds])

SpecFirst == InitFirst /\ [][Next]_vars

\* the order of parameters of refactored_linuxcnc_post, which has H and D
LinuxcncOrder ==
    <<"X", "Y", "Z", "A", "B", "C", "I", "J", "F", "S", "T", "Q", "R", "L",
      "H", "D", "P">>

Imperial ==
    [ UNITS |-> "G20", UNIT_FORMAT |-> "in", UNIT_SPEED_FORMAT |-> "in/min",
      AXIS_PRECISION |-> 4, FEED_PRECISION |-> 4 ]

UnitsConfigs ==
    {Configured(Grbl @@ u @@ o) :
        u \in {<< >>, Imperial,
               [PREAMBLE |-> <<<<"G17", "G90">>, <<"G20">>>>]},
        o \in [OUTPUT_DOUBLES : BOOLEAN]}

UnitsCmds ==
    { G0(25400, 1000, 0 - 12700),
      Cmd(<<"G1">>, <<Par("X", 12700), Par("R", 25400), Par("F", 1000)>>) }

InitUnits == InitWith(UnitsConfigs, Structure @@ [cmds |-> UnitsCmds])

SpecUnits == InitUnits /\ [][Next]_vars

\* the parameters that parse writes by str(int(...)), and Q, in millimetres
\* and in inches
IntConfigs ==
    {Configured(Grbl @@ [OUTPUT_COMMENTS |-> FALSE,
                         PARAMETER_ORDER |-> LinuxcncOrder] @@ u) :
        u \in {<< >>, Imperial}}

IntCmds ==
    { M6T2, G83Peck,
      Cmd(<<"G43">>, <<Par("H", 2000)>>),
      Cmd(<<"G41">>, <<Par("D", 3000)>>),
      Cmd(<<"G10">>, <<Par("L", 2000), Par("P", 1500)>>) }

InitInt ==
    InitWith(IntConfigs,
             [Structure EXCEPT !.activity = {"on", "off"}] @@ [cmds |-> IntCmds])

SpecInt == InitInt /\ [][Next]_vars

----------------------------------------------------------------------------
(* Line numbers *)

Numbered == SelectSeq(Emitted, LAMBDA l : l.n # NoNum)

----------------------------------------------------------------------------
(* The lines of commands *)

IsParam(t) == t.k # ""

\* the keys of the parameter tokens of a line, in output order
ParamKeys(l) ==
    LET ps == SelectSeq(l.toks, IsParam) IN [n \in 1..Len(ps) |-> ps[n].k]

Pos(order, k) == CHOOSE n \in 1..Len(order) : order[n] = k

InOrder(order, keys) ==
    /\ \A n \in 1..Len(keys) : \E m \in 1..Len(order) : order[m] = keys[n]
    /\ \A n, m \in 1..Len(keys) :
          n < m => Pos(order, keys[n]) < Pos(order, keys[m])

\* the command an emitted line was written for
CmdOf(l) == stream[l.src].c

\* the lines parse builds from a command's name and parameters
CommandLines == {n \in 1..Len(Emitted) : Emitted[n].kind = "command"}

\* C2: on every line parse builds from a command the parameter tokens are in
\* the order of PARAMETER_ORDER, whatever the order the command declares
\* them in, and no key outside PARAMETER_ORDER is emitted
C2_ParameterOrder ==
    \A n \in CommandLines :
        InOrder(values.PARAMETER_ORDER, ParamKeys(Emitted[n]))

\* the line of the command declared as G1 F.. Y.. E.. X..: X, Y and F only
C2_Witness ==
    \E n \in CommandLines :
        /\ Len(CmdOf(Emitted[n]).Parameters) = 4
        /\ CmdOf(Emitted[n]).Parameters[1].k = "F"
        /\ CmdOf(Emitted[n]).Parameters[3].k = "E"
        /\ CmdOf(Emitted[n]).Parameters[4].k = "X"
        /\ ParamKeys(Emitted[n]) = <<"X", "Y", "F">>

\* the command token of an emitted line
LineToken(l) == IF l.kind = "command" THEN CmdOf(l).Name ELSE l.toks[1].t

\* every command parsed so far belongs to an object that is active
AllActive == \A i \in 1..Len(stream) : stream[i].node > 0

\* C3: with MODAL, a command whose token equals the token of the line emitted
\* just before it is written without the token, its parameters only; without
\* MODAL every command line starts with its token (stated for exports whose
\* objects are all active)
C3_ModalSuppression ==
    AllActive =>
        \A n \in CommandLines :
            LET l == Emitted[n]
            IN  IF values.MODAL
                THEN n > 1 /\ LineToken(Emitted[n - 1]) = CmdOf(l).Name
                        => IsParam(l.toks[1])
                ELSE l.toks[1] = Word(CmdOf(l).Name)

AxisKeys == {"X", "Y", "Z"}

\* the command line of the i-th command carries a token of key k
EmitsKey(i, k) ==
    \E n \in CommandLines :
        /\ Emitted[n].src = i
        /\ \E m \in 1..Len(Emitted[n].toks) : Emitted[n].toks[m].k = k

\* C4: without OUTPUT_DOUBLES an axis parameter is left out when the previous
\* command has the same value for that key and is emitted when the value has
\* changed; with OUTPUT_DOUBLES every axis parameter of the command is emitted
\* (stated for exports whose objects are all active)
C4_DoublesSuppression ==
    AllActive =>
        \A i \in 1..Len(stream) : \A k \in AxisKeys \cap Keys(stream[i].c) :
            IF values.OUTPUT_DOUBLES
            THEN EmitsKey(i, k)
            ELSE i > 1 /\ Has(stream[i - 1].c, k)
                    => (EmitsKey(i, k)
                           <=> Val(stream[i].c, k) # Val(stream[i - 1].c, k))

\* C7: an object that is not active, or whose Base is not active, writes
\* nothing, at the top level and inside a group: no line of the output comes
\* from a call of parse for such an object or for a member of it
C7_InactiveContributesNothing ==
    /\ \A n \in 1..Len(Emitted) : Emitted[n].node >= 0
    /\ \A i \in 1..Len(stream) : stream[i].node >= 0

----------------------------------------------------------------------------
(* Drill cycles *)

\* the positions in the output of the lines written for the i-th command
LinesOf(i) == {n \in 1..Len(Emitted) : Emitted[n].src = i}

\* the i-th command is a drill cycle that parse hands to drill_translate
Translated(i) ==
    /\ values.TRANSLATE_DRILL_CYCLES
    /\ stream[i].c.Name \in values.DRILL_CYCLES_TO_TRANSLATE
    /\ {"Z", "R"} \subseteq Keys(stream[i].c)

\* the line starts with the word w
StartsWith(l, w) == l.toks # << >> /\ l.toks[1] = Word(<<w>>)

\* C5: a translated drill cycle with R less than Z writes no G0, G1 or G4
\* line, the comment 'drill cycle error: R less than Z' is written in its
\* place, and the export goes on with the next command
C5_RetractBelowDepth ==
    \A i \in 1..Len(stream) :
        Translated(i) /\ Val(stream[i].c, "R") < Val(stream[i].c, "Z") =>
            /\ \A n \in LinesOf(i) :
                  \A w \in {"G0", "G1", "G4"} : ~StartsWith(Emitted[n], w)
            /\ \E n \in LinesOf(i) :
                  Emitted[n].toks =
                      <<Word(create_comment(<<"drill cycle error: R less than Z">>,
                                            values.COMMENT_SYMBOL))>>
            /\ pc # "raised"

\* the least n with n * q >= a, for a >= 0 and q > 0
Ceil(a, q) == (a + q - 1) \div q

\* C6: a translated G83 with R at or above Z and Q > 0 writes
\* ceil((R - Z) / Q) feed moves (G1 lines)
C6_PeckCount ==
    \A i \in 1..Len(stream) :
        LET c == stream[i].c
        IN  /\ Translated(i)
            /\ c.Name = <<"G83">>
            /\ {"X", "Y", "Q", "F"} \subseteq Keys(c)
            /\ Val(c, "R") >= Val(c, "Z")
            /\ Val(c, "Q") > 0
            => Cardinality({n \in LinesOf(i) : StartsWith(Emitted[n], "G1")})
                  = Ceil(Val(c, "R") - Val(c, "Z"), Val(c, "Q"))

----------------------------------------------------------------------------
(* Tool changes and spindle starts *)

IsToolChange(i) == stream[i].c.Name \in {<<"M6">>, <<"M06">>}

\* the G43 line of tool t
OffsetLine(l, t) == l.toks = <<Word(<<"G43">>), Num("H", int(t), 0)>>

\* at position n of the output: the TOOL_CHANGE block, the line of the i-th
\* command, and the G43 line of its tool directly after it
BlockThenOffset(i, n) ==
    LET block == values.TOOL_CHANGE
    IN  /\ n > Len(block)
        /\ n < Len(Emitted)
        /\ \A b \in 1..Len(block) :
              /\ Emitted[n - Len(block) + b - 1].toks = <<Word(block[b])>>
              /\ Emitted[n - Len(block) + b - 1].src = i
        /\ Emitted[n].src = i
        /\ Emitted[n].kind = "command"
        /\ Emitted[n + 1].src = i
        /\ OffsetLine(Emitted[n + 1], Val(stream[i].c, "T"))

\* what claim C8 says of the i-th command, an M6 with a T
ToolLengthOffset(i) ==
    IF values.USE_TLO
    THEN \E n \in LinesOf(i) : BlockThenOffset(i, n)
    ELSE \A n \in LinesOf(i) : ~StartsWith(Emitted[n], "G43")

\* C8 as stated: for an M6 with a tool number T and USE_TLO the tool-change
\* block is emitted and 'G43 H<T>' follows directly after the M6 line; without
\* USE_TLO no G43 line is emitted
C8_Original ==
    \A i \in 1..Len(stream) :
        IsToolChange(i) /\ Has(stream[i].c, "T") => ToolLengthOffset(i)

\* C8 amended: the same, for exports with OUTPUT_TOOL_CHANGE set and an M6
\* that is not one of the SUPPRESS_COMMANDS
C8_ToolLengthOffset ==
    values.OUTPUT_TOOL_CHANGE =>
        \A i \in 1..Len(stream) :
            /\ IsToolChange(i)
            /\ Has(stream[i].c, "T")
            /\ stream[i].c.Name \notin values.SUPPRESS_COMMANDS
            => ToolLengthOffset(i)

\* M6 T2 with USE_TLO in a finished export: M0, M6 T2, G43 H2
C8_Witness ==
    /\ final = "text"
    /\ values.USE_TLO
    /\ values.OUTPUT_TOOL_CHANGE
    /\ \E n \in 2..(Len(gcode) - 1) :
          /\ gcode[n - 1].toks = <<Word(<<"M0">>)>>
          /\ gcode[n].toks = <<Word(<<"M6">>), Num("T", 2, 0)>>
          /\ gcode[n + 1].toks = <<Word(<<"G43">>), Num("H", 2, 0)>>

\* C9: without OUTPUT_TOOL_CHANGE an M6 is never a line of code: it is
\* written as a comment, and neither M5 nor the TOOL_CHANGE block is written
\* for it
C9_ToolChangeDisabled ==
    ~values.OUTPUT_TOOL_CHANGE =>
        \A i \in 1..Len(stream) : IsToolChange(i) =>
            /\ \A n \in LinesOf(i) :
                  /\ Emitted[n].toks[1] # Word(stream[i].c.Name)
                  /\ ~StartsWith(Emitted[n], "M5")
                  /\ \A b \in 1..Len(values.TOOL_CHANGE) :
                        Emitted[n].toks # <<Word(values.TOOL_CHANGE[b])>>
            /\ \E n \in LinesOf(i) :
                  LET t == Emitted[n].toks[1].t
                  IN  /\ Len(t) > 1
                      /\ <<t[1]>> = values.COMMENT_SYMBOL
                      /\ \E m \in 2..Len(t) : <<t[m]>> = stream[i].c.Name

IsSpindleOn(i) ==
    stream[i].c.Name \in {<<"M3">>, <<"M03">>, <<"M4">>, <<"M04">>}

\* C10: with SPINDLE_WAIT > 0 every M3, M03, M4 and M04 is a line of its own
\* directly followed by the line 'G4 P<wait>'; with SPINDLE_WAIT = 0 no G4
\* line is added
C10_SpindleWait ==
    \A i \in 1..Len(stream) : IsSpindleOn(i) =>
        IF values.SPINDLE_WAIT > 0
        THEN \E n \in LinesOf(i) :
                /\ Emitted[n].toks[1] = Word(stream[i].c.Name)
                /\ n < Len(Emitted)
                /\ Emitted[n + 1].toks =
                      <<Word(<<"G4">>), Num("P", values.SPINDLE_WAIT, 0)>>
        ELSE \A n \in LinesOf(i) : ~StartsWith(Emitted[n], "G4")

----------------------------------------------------------------------------
(* Coolant *)

\* the lines a step of export_common adds to gcode
Added == SubSeq(gcode', Len(gcode) + 1, Len(gcode'))

\* one of the added lines is the code w
Adds(w) == \E n \in 1..Len(Added) : StartsWith(Added[n], w)

\* C11: with ENABLE_COOLANT an operation with CoolantMode Flood gets M8, one
\* with Mist gets M7, before its commands, and M9 after its post-block; an
\* operation with any other mode, and every operation without ENABLE_COOLANT,
\* gets none of M7, M8, M9
C11_Coolant ==
    [][ /\ pc = "loop" /\ pc' = "parse" =>
            /\ Adds("M8") <=> values.ENABLE_COOLANT /\ coolantMode' = "Flood"
            /\ Adds("M7") <=> values.ENABLE_COOLANT /\ coolantMode' = "Mist"
            /\ ~Adds("M9")
        /\ pc = "postop" /\ pc' = "loop" =>
            /\ Adds("M9") <=> /\ values.ENABLE_COOLANT
                              /\ coolantMode \in {"Flood", "Mist"}
            /\ Adds("M9") => StartsWith(gcode'[Len(gcode')], "M9")
            /\ ~Adds("M7") /\ ~Adds("M8") ]_vars

----------------------------------------------------------------------------
(* The empty export and the return-to move *)

\* the export has ended, by a return or by an exception
Ended == pc \in {"done", "raised"}

\* C13: the export of one operation without commands, with the values of
\* init_shared_values and neither header nor comments, returns exactly two
\* lines: G90, then G21
C13_EmptyDefault ==
    /\ objectslist = <<"leaf">>
    /\ stream = << >>
    /\ values.PREAMBLE = << >> /\ ~values.OUTPUT_HEADER /\ ~values.OUTPUT_COMMENTS
    /\ Ended
    /\ ~(pc = "done" /\ calls = 0)
    => /\ final = "text"
       /\ Len(gcode) = 2
       /\ StartsWith(gcode[1], "G90")
       /\ StartsWith(gcode[2], "G21")

\* the line is the rapid move to the position p
IsReturnMove(l, p) ==
    l.toks = <<Word(<<"G0">>), Num("X", p[1], 0), Num("Y", p[2], 0),
               Num("Z", p[3], 0)>>

\* C20: the step that ends the export after the last operation returns the
\* text; with RETURN_TO set the first line it adds is the rapid move to that
\* position, before tool return, safety block and postamble, and it adds no
\* other G0 line; without RETURN_TO it adds no G0 line
C20_ReturnTo ==
    [][ pc = "loop" /\ Ended' =>
          /\ final' = "text"
          /\ values.RETURN_TO = << >> => ~Adds("G0")
          /\ values.RETURN_TO # << >> =>
                /\ Added # << >>
                /\ IsReturnMove(Added[1], values.RETURN_TO)
                /\ \A n \in 2..Len(Added) : ~StartsWith(Added[n], "G0") ]_vars

----------------------------------------------------------------------------
(* Objects without a Path *)

\* an object of the list handed to export has no Path
Unusable == \E i \in 1..Len(objectslist) : objectslist[i] = "nopath"

\* a group's call of parse went to a member and opened no call for it
MemberSkipped ==
    /\ pc = "parse"
    /\ calls' = calls + 1
    /\ Len(stack') = Len(stack)
    /\ Top.group

\* C14: with an object without a Path in the list the export generates no
\* text and returns None; a member of a group without a Path adds nothing to
\* the output and changes nothing of the export, which goes on with the
\* members that follow
C14_NoPath ==
    /\ [](Unusable => /\ Emitted = << >>
                      /\ final \in {"running", "None"}
                      /\ Ended => final = "None")
    /\ [][MemberSkipped => /\ UNCHANGED <<values, stack, gcode, final, pc>>
                           /\ Top'.group]_vars

\* a group whose second member has no Path: the first and the third member
\* are parsed
C14_Witness ==
    /\ pc = "postop"
    /\ values.OUTPUT_COMMENTS
    /\ calls = 3
    /\ {gcode[n].node : n \in 1..Len(gcode)} = {0, 1, 3}

----------------------------------------------------------------------------
(* Errors *)

\* C16: an export ends by returning None or by returning the text, never by
\* an exception that leaves export_common
C16_NoEscape == Ended => final \in {"None", "text"}

----------------------------------------------------------------------------
(* Comments *)

\* the i-th command of the stream is a comment
IsComment(i) == Head(stream[i].c.Name) = "("

\* the comments that export_common and parse write around the commands, but
\* for the header and the block marks for bCNC
StructuralKinds ==
    {"preamble_comment", "begin_operation", "machine_units", "coolant_comment",
     "finish_operation", "postamble_comment", "toolchange_comment",
     "compound_label", "path_label"}

\* the n-th line of the output is a comment, structural or of the path
IsCommentLine(n) ==
    \/ Emitted[n].kind \in StructuralKinds \cup {"header", "bcnc"}
    \/ /\ Emitted[n].kind = "command"
       /\ IsComment(Emitted[n].src)

\* the text t is written with the comment symbol sym
UsesSymbol(t, sym) ==
    IF sym = <<"(">>
    THEN Len(t) >= 2 /\ t[1] = "(" /\ t[Len(t)] = ")"
    ELSE /\ Len(t) >= Len(sym)
         /\ SubSeq(t, 1, Len(sym)) = sym
         /\ \A j \in 1..Len(t) : t[j] \notin {"(", ")"}

\* C17: with ENABLE_MACHINE_SPECIFIC_COMMANDS every comment of the form
\* (MC_RUN_COMMAND: text) has exactly one raw line, text, among its lines, and
\* with comments on that line follows the line of the comment directly; without
\* ENABLE_MACHINE_SPECIFIC_COMMANDS it has no raw line
C17_Passthrough ==
    \A i \in 1..Len(stream) :
        mc_match(stream[i].c.Name) =>
            LET raw == {n \in LinesOf(i) : Emitted[n].kind = "raw"}
            IN  IF values.ENABLE_MACHINE_SPECIFIC_COMMANDS
                THEN /\ Cardinality(raw) = 1
                     /\ \A n \in raw :
                           /\ Emitted[n].toks = <<Word(mc_group(stream[i].c.Name))>>
                           /\ values.OUTPUT_COMMENTS =>
                                 /\ n - 1 \in LinesOf(i)
                                 /\ Emitted[n - 1].kind = "command"
                ELSE raw = { }

\* a comment of the path is handed to parse while comments are off
CommentWhileOff ==
    /\ ~values.OUTPUT_COMMENTS
    /\ Len(stream') = Len(stream) + 1
    /\ Head(stream'[Len(stream')].c.Name) = "("

C19_CommentSymbol ==
    \A n \in 1..Len(Emitted) :
        IsCommentLine(n) =>
            /\ Len(Emitted[n].toks) = 1
            /\ UsesSymbol(Emitted[n].toks[1].t, values.COMMENT_SYMBOL)

----------------------------------------------------------------------------
(* The exports of one post *)

\* C12: every export hands to export_common the values that the first export
\* of the module would hand to it for the same argument string: nothing of
\* an earlier export is in them
C12_FreshState ==
    pc = "start" => values = export_values(GrblGlobals, argstring).v

\* the argument string holds an option that the parser does not know, or a
\* --return-to that is not a list of numbers
Unrecognized(args) == \E i \in 1..Len(args) : args[i].name \notin parser

Malformed(args) ==
    \E i \in 1..Len(args) :
        /\ args[i].name = "--return-to"
        /\ \E j \in 1..Len(args[i].val) : ~args[i].val[j].isint

\* C15: export called with an argument string that holds an unrecognized or
\* malformed option returns None, and has generated no output
C15_FailFast ==
    [][ pc = "idle" /\ (Unrecognized(argstring') \/ Malformed(argstring')) =>
          /\ pc' = "done"
          /\ final' = "None"
          /\ Emitted' = << >> ]_vars

----------------------------------------------------------------------------
(* The order of the lines of a tool change *)

\* the positions of the lines of kind k written for the i-th command
KindOf(i, k) == {n \in LinesOf(i) : Emitted[n].kind = k}

\* C21: with OUTPUT_TOOL_CHANGE and STOP_SPINDLE_FOR_TOOL_CHANGE an M6 has
\* its line, then the line M5, then the lines of the TOOL_CHANGE block
C21_StopSpindleOrder ==
    values.OUTPUT_TOOL_CHANGE /\ values.STOP_SPINDLE_FOR_TOOL_CHANGE =>
        \A i \in 1..Len(stream) :
            IsToolChange(i) /\ KindOf(i, "command") # { } =>
                /\ KindOf(i, "stop_spindle") # { }
                /\ \A c \in KindOf(i, "command") :
                      /\ \A s \in KindOf(i, "stop_spindle") : c < s
                      /\ \A t \in KindOf(i, "tool_change") : c < t
                /\ \A s \in KindOf(i, "stop_spindle") :
                      \A t \in KindOf(i, "tool_change") : s < t

----------------------------------------------------------------------------
(* The order of the output *)

\* the text t holds the chunk w
Holds(t, w) == \E j \in 1..Len(t) : t[j] = w

\* the place of the p-th line of gcode in the order of export_common: header,
\* safety block, preamble, motion mode, units; of an operation its pre-block,
\* coolant on, the lines of parse, post-block, coolant off; return-to move,
\* tool return, safety block, postamble (0: a block mark for bCNC)
RankAt(p) ==
    LET l == gcode[p]
    IN  IF l.node # 0 THEN 8
        ELSE CASE l.kind = "header" -> 1
               [] l.kind = "safetyblock" ->
                     IF \E q \in 1..(p - 1) :
                            gcode[q].kind \notin {"header", "safetyblock"}
                     THEN 14 ELSE 2
               [] l.kind \in {"preamble_comment", "preamble"} -> 3
               [] l.kind = "motion_mode" -> 4
               [] l.kind = "units" -> 5
               [] l.kind \in {"begin_operation", "machine_units",
                              "pre_operation"} -> 6
               [] l.kind = "coolant_on" -> 7
               [] l.kind = "coolant_comment" ->
                     IF Holds(l.toks[1].t, "Coolant On:") THEN 7 ELSE 10
               [] l.kind \in {"finish_operation", "post_operation"} -> 9
               [] l.kind = "coolant_off" -> 10
               [] l.kind = "return_to" -> 11
               [] l.kind = "postamble_comment" -> 12
               [] l.kind = "toolreturn" -> 13
               [] l.kind = "postamble" -> 15
               [] OTHER -> 0

Abs(x) == IF x < 0 THEN 0 - x ELSE x

\* a line of rank b may follow a line of rank a: b is not before a, or a is
\* of the end of an operation and b of the begin of the next
MayFollow(a, b) ==
    \/ a = 0 \/ b = 0
    \/ a <= b
    \/ a \in {8, 9, 10} /\ b \in {6, 7, 8}

\* the lines of gcode are in the order of export_common, and the lines of the
\* calls of parse in the order of the calls
InOutputOrder ==
    \A p \in 1..(Len(gcode) - 1) :
        /\ MayFollow(RankAt(p), RankAt(p + 1))
        /\ RankAt(p) = 8 /\ RankAt(p + 1) = 8 =>
              Abs(gcode[p].node) <= Abs(gcode[p + 1].node)

\* the blocks that every export writes are in the text, each as often as
\* export_common writes it
Complete ==
    LET count(k) == Cardinality({p \in 1..Len(gcode) : gcode[p].kind = k})
    IN  /\ count("preamble") = Len(values.PREAMBLE)
        /\ count("safetyblock") = 2 * Len(values.SAFETYBLOCK)
        /\ count("toolreturn") = Len(values.TOOLRETURN)
        /\ count("postamble") = Len(values.POSTAMBLE)
        /\ count("return_to") = IF values.RETURN_TO = << >> THEN 0 ELSE 1
        /\ count("pre_operation") = count("post_operation")

\* C22: an export of path objects returns the text, whose lines are in the
\* order header, safety block, preamble, motion mode and units, the operations
\* one after the other (pre-block, coolant on, commands, post-block, coolant
\* off), return-to move if configured, tool return, safety block, postamble
C22_OutputOrder ==
    /\ InOutputOrder
    /\ Ended /\ ~Unusable => final = "text" /\ Complete

----------------------------------------------------------------------------
(* Units *)

\* the parameters that parse formats as a length
IsLength(k) == k \notin {"F", "T", "H", "D", "L", "P", "S"}

\* m / 10^d is a decimal nearest to v / 1000 mm in the unit: of all decimals
\* with d digits none is nearer to v / 1000 mm, or to v / 25400 in
Nearest(m, d, v, unit_format) ==
    LET den == IF unit_format = "mm" THEN 1000 ELSE 25400
        err == m * den - v * Pow10(d)
    IN  2 * Abs(err) <= den

\* C23: every length among the tokens of a command's line is the command's
\* value in millimetres converted once to UNIT_FORMAT, with AXIS_PRECISION
\* decimals; 25.4 mm is 1.0000 in inches with 4 decimals and 25.400 with 3
\* decimals in millimetres
C23_LengthConversion ==
    /\ \A n \in 1..Len(Emitted) :
          Emitted[n].kind = "command" =>
              \A j \in 1..Len(Emitted[n].toks) :
                  LET t == Emitted[n].toks[j]
                  IN  IsParam(t) /\ IsLength(t.k) =>
                          /\ t.d = values.AXIS_PRECISION
                          /\ Nearest(t.m, t.d, Val(CmdOf(Emitted[n]), t.k),
                                     values.UNIT_FORMAT)
    /\ fmt_length(25400, "in", 4) = 10000
    /\ fmt_length(25400, "mm", 3) = 25400

\* G0 X25.4 Y1 Z-12.7 written in inches: X1.0000 Y0.0394 Z-0.5000
C23_Witness ==
    \E n \in 1..Len(Emitted) :
        Emitted[n].toks = <<Word(<<"G0">>), Num("X", 10000, 4),
                            Num("Y", 394, 4), Num("Z", 0 - 5000, 4)>>

----------------------------------------------------------------------------
(* The expansion of a drill cycle.  What the claims say of the i-th command
   is stated from the commands handed to parse before it. *)

\* the tracked position of axis k after the first i commands
RECURSIVE TrackedAxis(_, _)
TrackedAxis(i, k) ==
    IF i = 0 THEN 0
    ELSE LET c == stream[i].c
         IN  IF c.Name \in values.MOTION_COMMANDS /\ Has(c, k)
             THEN Val(c, k)
             ELSE TrackedAxis(i - 1, k)

\* the tracked mode after the first i commands: the last command among
\* modes, or the mode at the begin
RECURSIVE TrackedMode(_, _, _)
TrackedMode(i, modes, begin) ==
    IF i = 0 THEN begin
    ELSE IF stream[i].c.Name \in modes /\ ~skip_comment(values, stream[i].c.Name)
    THEN stream[i].c.Name
    ELSE TrackedMode(i - 1, modes, begin)

MotionModeAt(i) ==
    TrackedMode(i, {<<"G90">>, <<"G91">>},
                IF Contains(values.PREAMBLE, "G91") THEN <<"G91">> ELSE <<"G90">>)

RetractModeAt(i) == TrackedMode(i, {<<"G98">>, <<"G99">>}, <<"G98">>)

\* the i-th command is a drill cycle that is to be expanded: it is handed to
\* drill_translate with all the parameters of its cycle and R not below Z
Expanded(i) ==
    LET c == stream[i].c
    IN  /\ Translated(i)
        /\ {"X", "Y", "F"} \subseteq Keys(c)
        /\ c.Name = <<"G83">> => Has(c, "Q") /\ Val(c, "Q") > 0
        /\ c.Name = <<"G82">> => Has(c, "P")
        /\ Val(c, "R") >= Val(c, "Z")

\* X, Y, Z and R of the i-th command as absolute positions
Target(i, k) ==
    LET v == Val(stream[i].c, k)
        at == TrackedAxis(i - 1, IF k = "R" THEN "Z" ELSE k)
    IN  IF MotionModeAt(i - 1) = <<"G91">> THEN v + at ELSE v

\* the retract plane of the i-th command
RetractPlane(i) ==
    IF /\ RetractModeAt(i - 1) = <<"G98">>
       /\ TrackedAxis(i - 1, "Z") >= Target(i, "R")
    THEN TrackedAxis(i - 1, "Z")
    ELSE Target(i, "R")

\* a length v as a token of key k
Len3(k, v) ==
    Num(k, fmt_length(v, values.UNIT_FORMAT, values.AXIS_PRECISION),
        values.AXIS_PRECISION)

IsRapidZ(l, z) == l.toks = <<Word(<<"G0">>), Len3("Z", z)>>

IsFeedZ(l, z) ==
    /\ Len(l.toks) = 3
    /\ l.toks[1] = Word(<<"G1">>)
    /\ l.toks[2] = Len3("Z", z)
    /\ l.toks[3].k = "F"

First(S) == CHOOSE n \in S : \A m \in S : n <= m

Last(S) == CHOOSE n \in S : \A m \in S : m <= n

\* C24: a cycle expanded in relative mode (G91) has G90 as the first and G91
\* as the last line of its expansion, moves to the command's X and Y added
\* to the tracked position, and leaves the tracked motion mode G91
C24_RelativeMode ==
    \A i \in 1..Len(stream) :
        Expanded(i) /\ MotionModeAt(i - 1) = <<"G91">> /\ ~values.OUTPUT_COMMENTS =>
            /\ i = Len(stream) => pc # "raised"
            /\ LinesOf(i) # { }
            /\ StartsWith(Emitted[First(LinesOf(i))], "G90")
            /\ StartsWith(Emitted[Last(LinesOf(i))], "G91")
            /\ \E n \in LinesOf(i) :
                  Emitted[n].toks = <<Word(<<"G0">>), Len3("X", Target(i, "X")),
                                      Len3("Y", Target(i, "Y"))>>
            /\ i = Len(stream) => values.MOTION_MODE = <<"G91">>

\* C25: when an exception occurs in the expansion of a drill cycle (each
\* expansion raises at its first move), no move of the cycle reaches the
\* output, the G91 line is still written when the mode was relative, and
\* the export goes on
C25_Discarded ==
    \A i \in 1..Len(stream) :
        Expanded(i) /\ ~values.OUTPUT_COMMENTS =>
            /\ \A n \in LinesOf(i) :
                  ~ \E w \in {"G0", "G1", "G4"} : StartsWith(Emitted[n], w)
            /\ MotionModeAt(i - 1) = <<"G91">> =>
                  \E n \in LinesOf(i) : StartsWith(Emitted[n], "G91")
            /\ i = Len(stream) => pc # "raised"

\* C26: in retract mode G98 with the tracked Z above R the retract moves of
\* an expanded cycle go to that Z and none goes to R; otherwise they go to R
C26_RetractPlane ==
    \A i \in 1..Len(stream) :
        Expanded(i) /\ (i = Len(stream) => pc # "raised") =>
            /\ \E n \in LinesOf(i) : IsRapidZ(Emitted[n], RetractPlane(i))
            /\ RetractPlane(i) # Target(i, "R") =>
                  \A n \in LinesOf(i) : ~IsRapidZ(Emitted[n], Target(i, "R"))

\* C27: an expanded cycle begins with a rapid to the retract plane when the
\* tool is below it, then a rapid to the X/Y target, then a feed move (G1
\* with F) to the retract plane when the tool is above it
C27_Preliminary ==
    \A i \in 1..Len(stream) :
        Expanded(i) /\ (i = Len(stream) => pc # "raised") =>
            LET at == TrackedAxis(i - 1, "Z")
                plane == RetractPlane(i)
                moves == {n \in LinesOf(i) : ~StartsWith(Emitted[n], "G90")}
            IN  \E n \in moves :
                    /\ Emitted[n].toks =
                           <<Word(<<"G0">>), Len3("X", Target(i, "X")),
                             Len3("Y", Target(i, "Y"))>>
                    /\ IF at < plane
                       THEN /\ n - 1 = First(moves)
                            /\ IsRapidZ(Emitted[n - 1], plane)
                       ELSE n = First(moves)
                    /\ at > plane =>
                          n + 1 \in moves /\ IsFeedZ(Emitted[n + 1], plane)

\* C28: the expansion of a G81 or G82 with R not below Z holds exactly one
\* feed move to the depth Z, then for G82 one dwell line G4 P, then the
\* rapid to the retract plane as its last move; G81 has no dwell
C28_DrillDwell ==
    \A i \in 1..Len(stream) :
        /\ Expanded(i)
        /\ stream[i].c.Name \in {<<"G81">>, <<"G82">>}
        /\ i = Len(stream) => pc # "raised"
        => LET feeds == {n \in LinesOf(i) : IsFeedZ(Emitted[n], Target(i, "Z"))}
               dwells == {n \in LinesOf(i) : StartsWith(Emitted[n], "G4")}
               back == {n \in LinesOf(i) : IsRapidZ(Emitted[n], RetractPlane(i))}
           IN  /\ Cardinality(feeds) = 1
               /\ Cardinality(dwells) = IF stream[i].c.Name = <<"G82">> THEN 1 ELSE 0
               /\ \A d \in dwells :
                     /\ Len(Emitted[d].toks) = 2
                     /\ Emitted[d].toks[2].k = "P"
                     /\ Emitted[d].toks[2].m * Pow10(3) =
                            Val(stream[i].c, "P") * Pow10(Emitted[d].toks[2].d)
                     /\ \A f \in feeds : f < d
               /\ \E b \in back : \A n \in feeds \cup dwells : n < b

----------------------------------------------------------------------------
(* The tracked position and modes *)

\* C29: after any sequence of commands each of CURRENT_X, CURRENT_Y and
\* CURRENT_Z is the value that the last command of MOTION_COMMANDS carrying
\* the axis gave it, or 0 when there was none
C29_Position ==
    pc # "raised" =>
        /\ values.CURRENT_X = TrackedAxis(Len(stream), "X")
        /\ values.CURRENT_Y = TrackedAxis(Len(stream), "Y")
        /\ values.CURRENT_Z = TrackedAxis(Len(stream), "Z")

C29_Witness ==
    /\ Len(stream) = 2
    /\ stream[1].c = G0(10000, 20000, 30000)
    /\ stream[2].c.Name = <<"G1">>
    /\ values.CURRENT_X = 5000
    /\ values.CURRENT_Y = 20000
    /\ values.CURRENT_Z = 30000

\* the command that parse handled before the i-th in the same path
Before(i) ==
    {j \in 1..(i - 1) :
        /\ stream[j].node = stream[i].node
        /\ ~skip_comment(values, stream[j].c.Name)}

\* MODAL is on and the i-th command repeats the one before it
Repeats(i) ==
    /\ values.MODAL
    /\ Before(i) # { }
    /\ stream[Last(Before(i))].c.Name = stream[i].c.Name

IsMode(i) ==
    stream[i].c.Name \in {<<"G98">>, <<"G99">>, <<"G90">>, <<"G91">>}

ModesTracked ==
    pc # "raised" =>
        /\ values.DRILL_RETRACT_MODE = RetractModeAt(Len(stream))
        /\ values.MOTION_MODE = MotionModeAt(Len(stream))

OneCodeLine(i) ==
    \E n \in LinesOf(i) :
        /\ LinesOf(i) = {n}
        /\ Emitted[n].kind = "command"
        /\ Emitted[n].toks = <<Word(stream[i].c.Name)>>

\* C30 as stated: every G98/G99 command sets the tracked retract mode, every
\* G90/G91 command the tracked motion mode, and under every configuration
\* the command is written as a code line
C30_Original ==
    /\ ModesTracked
    /\ \A i \in 1..Len(stream) : IsMode(i) => OneCodeLine(i)

\* C30, amended: the modes are tracked as stated; the command is written
\* as a code line unless its name is in SUPPRESS_COMMANDS (as G98 and G99
\* are when drill cycles are translated) or MODAL is on and it repeats the
\* command before it, and then no code line is written for it
C30_Modes ==
    /\ ModesTracked
    /\ \A i \in 1..Len(stream) :
          IsMode(i) =>
              IF stream[i].c.Name \in values.SUPPRESS_COMMANDS \/ Repeats(i)
              THEN KindOf(i, "command") = { }
              ELSE OneCodeLine(i)

C30_Witness ==
    /\ Len(stream) = 2
    /\ stream[1].c.Name = <<"G99">>
    /\ stream[2].c.Name = <<"G91">>
    /\ stream[1].node = stream[2].node
    /\ values.DRILL_RETRACT_MODE = <<"G99">>
    /\ values.MOTION_MODE = <<"G91">>
    /\ OneCodeLine(1)
    /\ OneCodeLine(2)

----------------------------------------------------------------------------
(* Commands taken out of the code *)

\* the step hands a command of the name w to parse
Handles(w) ==
    /\ Len(stream') = Len(stream) + 1
    /\ stream'[Len(stream')].c.Name = w

\* C31: a message command writes nothing when comments are off, and what
\* was written before it stays as it is; with comments on its line is
\* written without the token message
C31_Message ==
    [][ Handles(<<"message">>) /\ values.REMOVE_MESSAGES =>
            /\ pc' # "raised"
            /\ IF ~values.OUTPUT_COMMENTS
               THEN Emitted' = Emitted
               ELSE /\ Len(Emitted') = Len(Emitted) + 1
                    /\ SubSeq(Emitted', 1, Len(Emitted)) = Emitted
                    /\ Emitted'[Len(Emitted')].kind = "command"
                    /\ Emitted'[Len(Emitted')].toks = <<Num("P", 1, 0)>> ]_vars

\* C32: a command of the suppression set is never written as a code line:
\* it is written as a comment when comments are on and leaves no line when
\* they are off; when drill cycles are translated G98, G99 and G80 are in
\* the set during the whole export
C32_Suppressed ==
    /\ \A i \in 1..Len(stream) :
          stream[i].c.Name \in values.SUPPRESS_COMMANDS =>
              /\ KindOf(i, "command") = { }
              /\ IF values.OUTPUT_COMMENTS
                 THEN \E n \in LinesOf(i) :
                         /\ LinesOf(i) = {n}
                         /\ Len(Emitted[n].toks) = 1
                         /\ UsesSymbol(Emitted[n].toks[1].t, values.COMMENT_SYMBOL)
                 ELSE LinesOf(i) = { }
    /\ values.TRANSLATE_DRILL_CYCLES /\ pc # "start" /\ final # "None" =>
          {<<"G98">>, <<"G99">>, <<"G80">>} \subseteq values.SUPPRESS_COMMANDS

\* the i-th command loses all its tokens: its name is in the suppression
\* set while comments are off, or it repeats the command before it, name
\* and parameters, under MODAL without OUTPUT_DOUBLES
ZeroTokens(i) ==
    \/ stream[i].c.Name \in values.SUPPRESS_COMMANDS /\ ~values.OUTPUT_COMMENTS
    \/ /\ Repeats(i)
       /\ ~values.OUTPUT_DOUBLES
       /\ stream[i].c = stream[Last(Before(i))].c
       /\ Keys(stream[i].c) \subseteq {"X", "Y", "Z"}

\* C33: a command left without a token writes no line, so no line is blank
\* or holds a line number only, and it takes no line number: the counter
\* has advanced once for each numbered line
C33_NoEmptyLine ==
    /\ \A n \in 1..Len(Emitted) : Emitted[n].toks # << >>
    /\ \A i \in 1..Len(stream) : ZeroTokens(i) => LinesOf(i) = { }
    /\ values.OUTPUT_LINE_NUMBERS /\ pc # "raised" =>
          values.line_number =
              init_shared_values.line_number
                  + values.LINE_INCREMENT * Len(Numbered)

C33_Witness ==
    /\ values.OUTPUT_LINE_NUMBERS
    /\ Len(stream) = 2
    /\ stream[1].c = G0(10000, 20000, 30000)
    /\ ZeroTokens(2)
    /\ ~values.TRANSLATE_DRILL_CYCLES
    /\ LinesOf(1) # { }
    /\ LinesOf(2) = { }

----------------------------------------------------------------------------
(* The walk over the objects.  The calls of parse are numbered in the order
   in which they are made: an object before its members, a member with all
   its own members before the next member. *)

\* the lines that the calls of parse have written, in output order
ParseLines == SelectSeq(Emitted, LAMBDA l : l.node # 0)

RECURSIVE OneLeafLocation(_)
OneLeafLocation(i) ==
    IF i = 0 THEN Frame(0, FALSE, << >>).currLocation
    ELSE update(OneLeafLocation(i - 1), stream[i].c)

\* the tokens of the i-th command in one leaf that holds all the commands
OneLeafTokens(i) ==
    LET c == stream[i].c
        lastcommand == IF i = 1 THEN << >> ELSE stream[i - 1].c.Name
    IN  (IF modal_keep(values, c.Name, lastcommand)
         THEN <<Word(c.Name)>> ELSE << >>)
        \o param_tokens(values, OneLeafLocation(i - 1), c, param_keys(values, c))

\* C35: the modal and the doubles memory go from the last command of a leaf
\* to the first of the next: the commands of the leaves of a group give the
\* command lines that one leaf with all the commands gives
C35_OneState ==
    objectslist = <<"group">> /\ AllActive =>
        \A i \in 1..Len(stream) :
            IF OneLeafTokens(i) = << >>
            THEN KindOf(i, "command") = { }
            ELSE \E n \in LinesOf(i) :
                    /\ KindOf(i, "command") = {n}
                    /\ Emitted[n].toks = OneLeafTokens(i)

----------------------------------------------------------------------------
(* The preamble *)

\* export_common has gone past the preamble, or has ended in it
PastPreamble == pc # "start" /\ final # "None"

HasLine(k) == \E p \in 1..Len(gcode) : gcode[p].kind = k

\* C36: the motion mode line is written if and only if the preamble holds
\* neither G90 nor G91, the units line if and only if it holds neither G21
\* nor G20; a mode or units command of the preamble becomes the tracked
\* motion mode or unit system, with its formats
C36_PreambleOverrides ==
    PastPreamble =>
        /\ HasLine("motion_mode") <=>
              ~Contains(values.PREAMBLE, "G90") /\ ~Contains(values.PREAMBLE, "G91")
        /\ HasLine("units") <=>
              ~Contains(values.PREAMBLE, "G21") /\ ~Contains(values.PREAMBLE, "G20")
        /\ Contains(values.PREAMBLE, "G90") => values.MOTION_MODE = <<"G90">>
        /\ Contains(values.PREAMBLE, "G21") =>
              /\ values.UNITS = "G21"
              /\ values.UNIT_FORMAT = "mm"
              /\ values.UNIT_SPEED_FORMAT = "mm/min"
        /\ ~Contains(values.PREAMBLE, "G21") /\ Contains(values.PREAMBLE, "G20") =>
              /\ values.UNITS = "G20"
              /\ values.UNIT_FORMAT = "in"
              /\ values.UNIT_SPEED_FORMAT = "in/min"

----------------------------------------------------------------------------
(* Parameters *)

\* C37: no line of a rapid move (a command of RAPID_MOVES: G0, G00) holds
\* the parameter F, whatever MODAL and OUTPUT_DOUBLES are and whatever F the
\* command before it had
C37_NoFeedOnRapid ==
    \A n \in 1..Len(Emitted) :
        Emitted[n].src # 0 /\ CmdOf(Emitted[n]).Name \in values.RAPID_MOVES =>
            \A j \in 1..Len(Emitted[n].toks) : Emitted[n].toks[j].k # "F"

C37_Witness ==
    /\ Len(stream) = 2
    /\ stream[1].c.Name = <<"G1">>
    /\ stream[2].c.Name = <<"G0">>
    /\ stream[1].node = stream[2].node
    /\ \E n \in LinesOf(1) : \E j \in 1..Len(Emitted[n].toks) :
          Emitted[n].toks[j].k = "F"
    /\ \E n \in LinesOf(2) :
          Emitted[n].toks = <<Word(<<"G0">>), Num("X", 10000, 3)>>

\* m is v / 1000 without its fraction
Truncated(m, v) ==
    /\ Abs(m) * 1000 <= Abs(v)
    /\ Abs(v) < (Abs(m) + 1) * 1000
    /\ m # 0 => (m > 0 <=> v > 0)

\* the tokens of key k on the lines of commands are plain integers
PlainInteger(k) ==
    \A n \in 1..Len(Emitted) :
        Emitted[n].kind = "command" =>
            \A j \in 1..Len(Emitted[n].toks) :
                LET t == Emitted[n].toks[j]
                IN  t.k = k =>
                        t.d = 0 /\ Truncated(t.m, Val(CmdOf(Emitted[n]), k))

\* C38 as stated: T, H, D, P, L and Q are written as plain integers,
\* without decimals and without conversion of units
C38_Original == \A k \in {"T", "H", "D", "P", "L", "Q"} : PlainInteger(k)

\* C38, amended: T, H, D, P and L are written as plain integers; Q is
\* written as a length, converted to UNIT_FORMAT with AXIS_PRECISION decimals
C38_Integers ==
    /\ \A k \in {"T", "H", "D", "P", "L"} : PlainInteger(k)
    /\ \A n \in 1..Len(Emitted) :
          Emitted[n].kind = "command" =>
              \A j \in 1..Len(Emitted[n].toks) :
                  LET t == Emitted[n].toks[j]
                  IN  t.k = "Q" =>
                          /\ t.d = values.AXIS_PRECISION
                          /\ Nearest(t.m, t.d, Val(CmdOf(Emitted[n]), "Q"),
                                     values.UNIT_FORMAT)

C38_Witness ==
    /\ values.UNITS = "G20"
    /\ Len(stream) = 2
    /\ \E n \in LinesOf(1) :
          Emitted[n].toks = <<Word(<<"G10">>), Num("L", 2, 0), Num("P", 1, 0)>>
    /\ \E n \in LinesOf(2) : \E j \in 1..Len(Emitted[n].toks) :
          Emitted[n].toks[j] = Num("Q", 1575, 4)

----------------------------------------------------------------------------
(* The peck loop *)

\* C39: drill_translate comes to its end for every G83 with R not below Z,
\* whatever the step Q: the export goes on after the command, and when Q is
\* not 0 the last pass of the peck loop, the feed move to the depth Z and
\* the rapid to the retract plane after it, is in the output
C39_PeckLoopEnds ==
    \A i \in 1..Len(stream) :
        LET c == stream[i].c
        IN  /\ Translated(i)
            /\ c.Name = <<"G83">>
            /\ {"X", "Y", "Q", "F"} \subseteq Keys(c)
            /\ Val(c, "R") >= Val(c, "Z")
            => /\ i = Len(stream) => pc # "raised"
               /\ Val(c, "Q") # 0 =>
                     \E n \in LinesOf(i) :
                         /\ IsFeedZ(Emitted[n], Target(i, "Z"))
                         /\ n + 1 \in LinesOf(i)
                         /\ IsRapidZ(Emitted[n + 1], RetractPlane(i))

----------------------------------------------------------------------------
(* The first command *)

\* the line of the i-th command holds a token of key k
Writes(i, k) ==
    \E n \in KindOf(i, "command") : \E j \in 1..Len(Emitted[n].toks) :
        Emitted[n].toks[j].k = k

\* C40: without OUTPUT_DOUBLES the first command of a path still writes
\* every axis it has, whatever the values: an axis is left out only against
\* a value that an earlier command gave
C40_FirstCommand ==
    ~values.OUTPUT_DOUBLES =>
        \A i \in 1..Len(stream) :
            Before(i) = { } =>
                \A k \in Keys(stream[i].c) \cap {"X", "Y", "Z"} : Writes(i, k)

====
